---- MODULE Spec2Model ----
(***************************************************************************)
(* A model of the MCP framework: the decorator registries, the request     *)
(* dispatchers (simplified.handle_request, the local_server loop,          *)
(* LambdaHandler.handle), parameter inference and the transport adapters.  *)
(*                                                                         *)
(* Python values are modelled as follows.  A dict is a function with       *)
(* string keys (a record); a dict that keeps insertion order where the     *)
(* order is observable (the registries) is a sequence of [key, value]      *)
(* pairs.  Every non-dict Python object (None, str, int, bool, list, ...)   *)
(* is a record with a "py" field naming its type.  A str is the sequence   *)
(* of the parts it was built from (an f-string, str(e), json.dumps), so    *)
(* that "the message contains X" can be stated.                            *)
(***************************************************************************)
EXTENDS Integers, Sequences, FiniteSets, TLC

VARIABLES
    _tools,         \* simplified._tools     (ordered dict)
    _resources,     \* simplified._resources (ordered dict)
    _prompts,       \* simplified._prompts   (ordered dict)
    _server_config, \* simplified._server_config
    op,             \* the operation performed last
    request,        \* the request (or event) the last operation dispatched, or None
    response,       \* what the last operation's dispatcher returned or built, or None
    raised,         \* the exception that left the last operation, or None
    calls,          \* the handlers whose body ran in the last operation, in order
    regs,           \* the registrations made so far, in order (recorded by the
                    \* registry specifications, left empty by the server's)
    pending,        \* the function a decorator is about to be applied to, or None
    program,        \* which program the process runs: the simplified or the class-based API
    env,            \* the optional packages the process found installed
    server,         \* the MCPServer instance of the class-based API, or None
    mcp_response,   \* the MCPResponse the last operation built, or None
    loop,           \* the stdio loop: "idle", "running", "exited", or "hung" in an await
    nlines,         \* number of lines the stdio loop has read
    input,          \* the line the stdio loop read last, or None
    stdout,         \* the lines written to sys.stdout
    stderr,         \* the lines written to sys.stderr
    wrote           \* the lines the last operation wrote to sys.stdout

vars == <<_tools, _resources, _prompts, _server_config, op, request, response,
          raised, calls, regs, pending, program, env, server, mcp_response,
          loop, nlines, input, stdout, stderr, wrote>>

registry == <<_tools, _resources, _prompts>>
observed == <<request, response, raised, calls, mcp_response>>
history == <<regs, pending>>
stdio == <<loop, nlines, input, stdout, stderr, wrote>>

----------------------------------------------------------------------------
(* Bounds of the model *)

MaxRegs == 3
MaxParams == 2
MaxLines == 2
MaxMembers == 3

----------------------------------------------------------------------------
(* Python values *)

None == [py |-> "None"]
PyStr(s) == [py |-> "str", parts |-> <<s>>]
\* an f-string, or a concatenation: the sequence of its parts
Fmt(parts) == [py |-> "str", parts |-> parts]
PyInt(n) == [py |-> "int", v |-> n]
PyBool(b) == [py |-> "bool", v |-> b]
PyList(items) == [py |-> "list", items |-> items]
PyObject == [py |-> "object"]
EmptyDict == [k \in {} |-> TRUE]

IsDict(v) == "py" \notin DOMAIN v

\* dict.get(key, default)
Get(d, key, default) == IF key \in DOMAIN d THEN d[key] ELSE default

\* str(v) as it appears inside an f-string: the parts it contributes
Str(v) ==
    IF IsDict(v) THEN <<"{...}">>
    ELSE CASE v.py = "None" -> <<"None">>
           [] v.py = "str" -> v.parts
           [] v.py = "int" -> <<ToString(v.v)>>
           [] OTHER -> <<"<object>">>

\* type(v).__name__
TypeName(v) ==
    IF IsDict(v) THEN "dict"
    ELSE CASE v.py = "None" -> "NoneType"
           [] OTHER -> v.py

\* The outcome of evaluating Python code: a value, or a raised exception.
Ok(v) == [ok |-> TRUE, value |-> v]
Raise(t, m) == [ok |-> FALSE, type |-> t, message |-> m]
\* The third outcome: the code never returns (a loop without end, an await that
\* never completes)
NeverReturns == [ok |-> FALSE, type |-> "never returns", message |-> PyStr("")]

\* A local variable: F applied to the value of x, which is computed once.
Bind(x, F(_)) == CHOOSE y \in {F(v) : v \in {x}} : TRUE

\* text in message, for two Python strings: the parts of text occur in a row.
Contains(message, text) ==
    \E i \in 0..Len(message.parts) :
        /\ i + Len(text.parts) <= Len(message.parts)
        /\ \A j \in DOMAIN text.parts : message.parts[i + j] = text.parts[j]

----------------------------------------------------------------------------
(* Ordered dicts: the registries *)

DictKeys(d) == {d[i].key : i \in DOMAIN d}

DictIndex(d, k) == CHOOSE i \in DOMAIN d : d[i].key = k

DictGet(d, k) == d[DictIndex(d, k)].value

\* A store that would keep the first value of an existing key (d.setdefault(k, v))
DictSetKeepFirst(d, k, v) ==
    IF k \in DictKeys(d) THEN d ELSE Append(d, [key |-> k, value |-> v])

\* A store that would move an existing key to the end (del d[k]; d[k] = v)
DictSetMoveToEnd(d, k, v) ==
    Append(SelectSeq(d, LAMBDA e : e.key # k), [key |-> k, value |-> v])

\* d[k] = v: an existing key keeps its position, a new key goes last.
DictSet(d, k, v) ==
    IF k \in DictKeys(d)
    THEN [d EXCEPT ![DictIndex(d, k)] = [key |-> k, value |-> v]]
    ELSE Append(d, [key |-> k, value |-> v])

\* list(d.values())
DictValues(d) == [i \in DOMAIN d |-> d[i].value]

----------------------------------------------------------------------------
(* Handler functions *)

\* A class used as an annotation: int, float, bool, str, list, ...
Type(name) == [py |-> "type", name |-> name]

\* inspect.Parameter.empty: no annotation, or no default value
ParamEmpty == Type("inspect.Parameter.empty")

\* One declared parameter of a function: its name, its annotation as written and
\* its default value.
Param(name, annotation, default) ==
    [name |-> name, annotation |-> annotation, default |-> default]

\* A function object: its name, its declared parameters, what its body does, and
\* its kind: "def" (a Python function), "postponed" (a Python function of a module
\* that begins with "from __future__ import annotations") or "builtin" (a callable
\* implemented in C that carries no signature, such as max, int or dict).
Func(fn, sig, body) == [fn |-> fn, sig |-> sig, body |-> body, kind |-> "def"]

Postponed(func) == [func EXCEPT !.kind = "postponed"]

Builtin(fn, body) == [Func(fn, <<>>, body) EXCEPT !.kind = "builtin"]

\* str(annotation) as the compiler stores it under postponed evaluation
Stringized(annotation) == IF annotation = ParamEmpty THEN annotation ELSE PyStr(annotation.name)

\* inspect.signature(func), called without eval_str: the parameters as the function
\* object holds them, or ValueError for a callable that carries no signature
Signature(func) ==
    CASE func.kind = "def" -> Ok(func.sig)
      [] func.kind = "postponed" ->
            Ok([i \in DOMAIN func.sig |->
                   [func.sig[i] EXCEPT !.annotation = Stringized(@)]])
      [] func.kind = "builtin" ->
            Raise("ValueError", Fmt(<<"no signature found for builtin <built-in function ",
                                      func.fn, ">">>))

ParamNames(sig) == {sig[i].name : i \in DOMAIN sig}

----------------------------------------------------------------------------
(* Parameter inference: simplified.tool, the branch taken when no schema is given *)

\* "Simple type mapping" of one parameter's annotation
ParamTypeFloatAsInteger(param) ==
    IF param.annotation # ParamEmpty
    THEN IF param.annotation = Type("int") THEN PyStr("integer")
         ELSE IF param.annotation = Type("float") THEN PyStr("integer")
         ELSE IF param.annotation = Type("bool") THEN PyStr("boolean")
         ELSE PyStr("string")
    ELSE PyStr("string")

ParamType(param) ==
    IF param.annotation # ParamEmpty
    THEN IF param.annotation = Type("int") THEN PyStr("integer")
         ELSE IF param.annotation = Type("float") THEN PyStr("number")
         ELSE IF param.annotation = Type("bool") THEN PyStr("boolean")
         ELSE PyStr("string")
    ELSE PyStr("string")

\* One iteration of the loop over sig.parameters.items()
InferStepRequiredAlways(acc, param) ==
    IF param.name \notin {"self", "cls"}
    THEN [props |-> (param.name :> [type |-> ParamType(param)]) @@ acc.props,
          required |-> Append(acc.required, PyStr(param.name))]
    ELSE acc

InferStep(acc, param) ==
    IF param.name \notin {"self", "cls"}
    THEN [props |-> (param.name :> [type |-> ParamType(param)]) @@ acc.props,
          required |-> IF param.default = ParamEmpty
                       THEN Append(acc.required, PyStr(param.name))
                       ELSE acc.required]
    ELSE acc

RECURSIVE InferLoop(_, _, _)
InferLoop(sig, i, acc) ==
    IF i > Len(sig) THEN acc
    ELSE InferLoop(sig, i + 1, InferStep(acc, sig[i]))

\* "if props: params = {...} else: params = {}"
InferredSchema(acc) ==
    IF DOMAIN acc.props # {}
    THEN [type |-> PyStr("object"), properties |-> acc.props,
          required |-> PyList(acc.required)]
    ELSE EmptyDict

\* The params value computed when parameters is None, or the exception of
\* inspect.signature
InferParameters(func) ==
    Bind(Signature(func), LAMBDA sig :
        IF sig.ok
        THEN Ok(InferredSchema(InferLoop(sig.value, 1,
                                         [props |-> EmptyDict, required |-> <<>>])))
        ELSE sig)

\* A decorator that would infer the schema even when one is passed
ToolParametersAlwaysInferred(parameters, func) == InferParameters(func)

\* The params value stored by tool(name, description, parameters)(func)
ToolParameters(parameters, func) ==
    IF parameters = None THEN InferParameters(func) ELSE Ok(parameters)

----------------------------------------------------------------------------
(* json.dumps *)

RECURSIVE Serializable(_)
Serializable(v) ==
    IF IsDict(v) THEN \A k \in DOMAIN v : Serializable(v[k])
    ELSE IF v.py = "list" THEN \A i \in DOMAIN v.items : Serializable(v.items[i])
    ELSE v.py \in {"None", "str", "int", "bool"}

RECURSIVE JsonText(_)
RECURSIVE JsonItems(_, _)

\* The members of dict v under the keys S, separated by ", "
JsonItems(v, S) ==
    LET k == CHOOSE x \in S : TRUE
    IN  <<"\"", k, "\": ">> \o JsonText(v[k])
            \o (IF S = {k} THEN <<>> ELSE <<", ">> \o JsonItems(v, S \ {k}))

JsonText(v) ==
    IF IsDict(v)
    THEN IF DOMAIN v = {} THEN <<"{}">>
         ELSE <<"{">> \o JsonItems(v, DOMAIN v) \o <<"}">>
    ELSE IF v.py = "list"
    THEN IF v.items = <<>> THEN <<"[]">>
         ELSE IF Len(v.items) = 1 THEN <<"[">> \o JsonText(v.items[1]) \o <<"]">>
         ELSE <<"[">> \o JsonText(v.items[1]) \o <<", ">>
                  \o Tail(JsonText(PyList(Tail(v.items))))
    ELSE CASE v.py = "None" -> <<"null">>
           [] v.py = "str" -> <<"\"">> \o v.parts \o <<"\"">>
           [] v.py = "int" -> <<ToString(v.v)>>
           [] v.py = "bool" -> IF v.v THEN <<"true">> ELSE <<"false">>

\* json.dumps(v): the text, or TypeError for an object json cannot encode
JsonDumps(v) ==
    Bind(v, LAMBDA x :
        IF Serializable(x) THEN Ok(Fmt(JsonText(x)))
        ELSE Raise("TypeError", Fmt(<<"Object of type ", TypeName(x),
                                      " is not JSON serializable">>)))

----------------------------------------------------------------------------
(* Calling a handler *)

\* What the body of a function does once its parameters are bound.
RECURSIVE Format(_)
RECURSIVE FormatItems(_, _)

\* The members of dict v under the keys S as str(v) shows them
FormatItems(v, S) ==
    LET k == CHOOSE x \in S : TRUE
        member == IF IsDict(v[k]) THEN Format(v[k])
                  ELSE IF v[k].py = "str" THEN <<"'">> \o v[k].parts \o <<"'">>
                  ELSE Str(v[k])
    IN  <<"'", k, "': ">> \o member
            \o (IF S = {k} THEN <<>> ELSE <<", ">> \o FormatItems(v, S \ {k}))

\* f"{v}": str(v), which for a dict shows its members
Format(v) ==
    IF IsDict(v)
    THEN IF DOMAIN v = {} THEN <<"{}">>
         ELSE <<"{">> \o FormatItems(v, DOMAIN v) \o <<"}">>
    ELSE Str(v)

\* The handlers' bodies. "text" is the prompt handler of the tests,
\* f"Tell me about {topic}", topic being its single parameter.
Body(func, args) ==
    CASE func.body = "echo" -> Ok([echo |-> args.text])
      [] func.body = "none" -> Ok(None)
      [] func.body = "data" -> Ok([data |-> PyStr("test data")])
      [] func.body = "text" -> Ok(Fmt(<<"Tell me about ">> \o Format(args[1])))
      [] func.body = "raise" -> Raise("ValueError", PyStr("Test error"))
      [] func.body = "hang" -> NeverReturns

Required(sig) == {sig[i].name : i \in {j \in DOMAIN sig : sig[j].default = ParamEmpty}}

\* handler() in place of handler(**arguments): the arguments are dropped
CallKwDroppingArguments(func, arguments) ==
    IF Required(func.sig) # {}
    THEN [out |-> Raise("TypeError", Fmt(<<func.fn, "() missing required argument: '",
                        CHOOSE k \in Required(func.sig) : TRUE, "'">>)),
          ran |-> FALSE]
    ELSE [out |-> Body(func, EmptyDict), ran |-> TRUE]

\* handler(**arguments): [out: the outcome, ran: whether the body ran]
CallKw(func, arguments) ==
    IF ~IsDict(arguments)
    THEN [out |-> Raise("TypeError", Fmt(<<func.fn, "() argument after ** must be a mapping, not ",
                                          TypeName(arguments)>>)),
          ran |-> FALSE]
    ELSE IF DOMAIN arguments \ ParamNames(func.sig) # {}
    THEN [out |-> Raise("TypeError", Fmt(<<func.fn, "() got an unexpected keyword argument '",
                        CHOOSE k \in DOMAIN arguments \ ParamNames(func.sig) : TRUE, "'">>)),
          ran |-> FALSE]
    ELSE IF Required(func.sig) \ DOMAIN arguments # {}
    THEN [out |-> Raise("TypeError", Fmt(<<func.fn, "() missing required argument: '",
                        CHOOSE k \in Required(func.sig) \ DOMAIN arguments : TRUE, "'">>)),
          ran |-> FALSE]
    ELSE [out |-> Body(func, arguments), ran |-> TRUE]

\* handler(None, ...): the handler runs, but not on the values it was to receive
CallPosWithoutValues(func, positional) ==
    IF Len(positional) > Len(func.sig)
    THEN [out |-> Raise("TypeError", Fmt(<<func.fn, "() takes ", ToString(Len(func.sig)),
                        " positional arguments but ", ToString(Len(positional)), " were given">>)),
          ran |-> FALSE]
    ELSE [out |-> Body(func, [i \in DOMAIN positional |-> None]), ran |-> TRUE]

\* handler(*positional): [out: the outcome, ran: whether the body ran]
CallPos(func, positional) ==
    IF Len(positional) > Len(func.sig)
    THEN [out |-> Raise("TypeError", Fmt(<<func.fn, "() takes ", ToString(Len(func.sig)),
                        " positional arguments but ", ToString(Len(positional)), " were given">>)),
          ran |-> FALSE]
    ELSE IF \E i \in DOMAIN func.sig : i > Len(positional) /\ func.sig[i].default = ParamEmpty
    THEN [out |-> Raise("TypeError", Fmt(<<func.fn, "() missing required argument">>)),
          ran |-> FALSE]
    ELSE [out |-> Body(func, [i \in DOMAIN positional |-> positional[i]]), ran |-> TRUE]

----------------------------------------------------------------------------
(* simplified.handle_request *)

\* params.get(...) on a value that is no dict
AttributeErrorGet(v) ==
    Raise("AttributeError", Fmt(<<"'", TypeName(v), "' object has no attribute 'get'">>))

\* key in registry, for a key that may be unhashable
Unhashable(key) == IsDict(key)
TypeErrorUnhashable(key) ==
    Raise("TypeError", Fmt(<<"unhashable type: '", TypeName(key), "'">>))

\* A route's outcome: the result or the exception, and the handlers that ran.
Routed(out, ran) == [out |-> out, calls |-> ran]

InitializeResult(config, defaultName, defaultVersion) ==
    [protocolVersion |-> PyStr("1.0"),
     capabilities |-> [tools |-> [listChanged |-> PyBool(FALSE)],
                       resources |-> [subscribe |-> PyBool(FALSE),
                                      listChanged |-> PyBool(FALSE)],
                       prompts |-> [listChanged |-> PyBool(FALSE)]],
     serverInfo |-> [name |-> Get(config, "name", defaultName),
                     version |-> Get(config, "version", defaultVersion)]]

ToolsListResult ==
    [tools |-> PyList([i \in DOMAIN _tools |->
                   [name |-> _tools[i].value.name,
                    description |-> _tools[i].value.description,
                    parameters |-> _tools[i].value.parameters]])]

ResourcesListResult ==
    [resources |-> PyList([i \in DOMAIN _resources |->
                       [uri |-> _resources[i].value.uri,
                        description |-> _resources[i].value.description]])]

PromptsListResult ==
    [prompts |-> PyList([i \in DOMAIN _prompts |->
                     [name |-> _prompts[i].value.name,
                      description |-> _prompts[i].value.description]])]

ToolsCall(params) ==
    IF ~IsDict(params) THEN Routed(AttributeErrorGet(params), <<>>)
    ELSE
    LET tool_name == Get(params, "name", None)
        arguments == Get(params, "arguments", EmptyDict)
    IN  IF ~Serializable(arguments) THEN Routed(JsonDumps(arguments), <<>>)
        ELSE IF Unhashable(tool_name) THEN Routed(TypeErrorUnhashable(tool_name), <<>>)
        ELSE IF tool_name \in DictKeys(_tools)
        THEN Bind(CallKw(DictGet(_tools, tool_name).handler, arguments), LAMBDA r :
             LET ran == IF r.ran THEN <<DictGet(_tools, tool_name).handler>> ELSE <<>>
             IN  \* the inner try: the call, then the logged json.dumps(tool_result)
                 IF r.out.ok
                 THEN Bind(JsonDumps(r.out.value), LAMBDA dumped :
                          IF dumped.ok
                          THEN Routed(Ok([content |-> PyList(<<[type |-> PyStr("text"),
                                             text |-> dumped.value]>>)]), ran)
                          ELSE Routed(Raise("ValueError",
                                            Fmt(<<"Tool '">> \o Str(tool_name)
                                                \o <<"' error: ">> \o dumped.message.parts)),
                                      ran))
                 ELSE IF r.out.type = "TypeError"
                 THEN Routed(Raise("ValueError",
                                   Fmt(<<"Tool '">> \o Str(tool_name) \o <<"' error: ">>
                                       \o r.out.message.parts)), ran)
                 ELSE Routed(r.out, ran))
        ELSE Routed(Raise("ValueError", Fmt(<<"Unknown tool: ">> \o Str(tool_name))), <<>>)

ResourcesRead(params) ==
    IF ~IsDict(params) THEN Routed(AttributeErrorGet(params), <<>>)
    ELSE
    LET uri == Get(params, "uri", None)
    IN  IF Unhashable(uri) THEN Routed(TypeErrorUnhashable(uri), <<>>)
        ELSE IF uri \in DictKeys(_resources)
        THEN Bind(CallPos(DictGet(_resources, uri).handler, <<>>), LAMBDA r :
             LET ran == IF r.ran THEN <<DictGet(_resources, uri).handler>> ELSE <<>>
             IN  IF ~r.out.ok THEN Routed(r.out, ran)
                 ELSE Bind(JsonDumps(r.out.value), LAMBDA dumped :
                          IF ~dumped.ok THEN Routed(dumped, ran)
                          ELSE Routed(Ok([contents |-> PyList(<<[uri |-> uri,
                                              text |-> dumped.value]>>)]), ran)))
        ELSE Routed(Raise("ValueError", Fmt(<<"Unknown resource: ">> \o Str(uri))), <<>>)

PromptsGet(params) ==
    IF ~IsDict(params) THEN Routed(AttributeErrorGet(params), <<>>)
    ELSE
    LET prompt_name == Get(params, "name", None)
        context == Get(params, "context", EmptyDict)
    IN  IF Unhashable(prompt_name) THEN Routed(TypeErrorUnhashable(prompt_name), <<>>)
        ELSE IF prompt_name \in DictKeys(_prompts)
        THEN Bind(CallPos(DictGet(_prompts, prompt_name).handler, <<context>>), LAMBDA r :
             LET ran == IF r.ran THEN <<DictGet(_prompts, prompt_name).handler>> ELSE <<>>
             IN  IF ~r.out.ok THEN Routed(r.out, ran)
                 ELSE Routed(Ok([description |-> r.out.value]), ran))
        ELSE Routed(Raise("ValueError", Fmt(<<"Unknown prompt: ">> \o Str(prompt_name))), <<>>)

UnknownMethod(method) ==
    Routed(Raise("ValueError", Fmt(<<"Unknown method: ">> \o Str(method))), <<>>)

\* The if/elif chain inside the try block
Route(method, params) ==
    IF method = PyStr("initialize")
    THEN Routed(Ok(InitializeResult(_server_config, PyStr("mcp-server"), PyStr("1.0.0"))), <<>>)
    ELSE IF method = PyStr("tools/list") THEN Routed(Ok(ToolsListResult), <<>>)
    ELSE IF method = PyStr("tools/call") THEN ToolsCall(params)
    ELSE IF method = PyStr("resources/list") THEN Routed(Ok(ResourcesListResult), <<>>)
    ELSE IF method = PyStr("resources/read") THEN ResourcesRead(params)
    ELSE IF method = PyStr("prompts/list") THEN Routed(Ok(PromptsListResult), <<>>)
    ELSE IF method = PyStr("prompts/get") THEN PromptsGet(params)
    ELSE UnknownMethod(method)

\* The envelopes built at the end of the try block and in the except block
SuccessEnvelope(request_id, result) ==
    [jsonrpc |-> PyStr("2.0"), id |-> request_id, result |-> result]

ErrorCode == -32603

\* (an except block that answers under the default id)
ErrorEnvelopeDefaultId(request_id, e) ==
    [jsonrpc |-> PyStr("2.0"), id |-> PyInt(1),
     error |-> [code |-> PyInt(ErrorCode), message |-> Fmt(Str(e.message))]]

\* An envelope under the implementation-defined code -32000, its message the
\* exception itself and not its text
ErrorEnvelopeServerError(request_id, e) ==
    [jsonrpc |-> PyStr("2.0"), id |-> request_id,
     error |-> [code |-> PyInt(-32000), message |-> PyObject]]

\* An envelope whose message does not say what was raised
ErrorEnvelopeGenericMessage(request_id, e) ==
    [jsonrpc |-> PyStr("2.0"), id |-> request_id,
     error |-> [code |-> PyInt(ErrorCode), message |-> PyStr("Internal error")]]

ErrorEnvelope(request_id, e) ==
    [jsonrpc |-> PyStr("2.0"), id |-> request_id,
     error |-> [code |-> PyInt(ErrorCode), message |-> Fmt(Str(e.message))]]

\* A dispatcher that drops a request without id in place of dispatching it
handle_requestDroppingNotifications(req) ==
    IF ~IsDict(req)
    THEN [returned |-> None, raised |-> AttributeErrorGet(req), calls |-> <<>>]
    ELSE IF "id" \notin DOMAIN req
    THEN [returned |-> None, raised |-> None, calls |-> <<>>]
    ELSE
    LET method == Get(req, "method", PyStr(""))
        params == Get(req, "params", EmptyDict)
        request_id == Get(req, "id", PyInt(1))
    IN  IF ~Serializable(params)
        THEN [returned |-> None, raised |-> JsonDumps(params), calls |-> <<>>]
        ELSE Bind(Route(method, params), LAMBDA r :
                 [returned |-> IF r.out.ok THEN SuccessEnvelope(request_id, r.out.value)
                               ELSE ErrorEnvelope(request_id, r.out),
                  raised |-> None,
                  calls |-> r.calls])

\* await handle_request(request):
\* [returned: the value returned, raised: the exception that left it or None, calls];
\* raised is NeverReturns when the handler awaited never returns
handle_request(req) ==
    IF ~IsDict(req)
    THEN [returned |-> None, raised |-> AttributeErrorGet(req), calls |-> <<>>]
    ELSE
    LET method == Get(req, "method", PyStr(""))
        params == Get(req, "params", EmptyDict)
        request_id == Get(req, "id", PyInt(1))
    IN  IF ~Serializable(params)
        THEN [returned |-> None, raised |-> JsonDumps(params), calls |-> <<>>]
        ELSE Bind(Route(method, params), LAMBDA r :
                 IF r.out = NeverReturns
                 THEN [returned |-> None, raised |-> NeverReturns, calls |-> r.calls]
                 ELSE
                 [returned |-> IF r.out.ok THEN SuccessEnvelope(request_id, r.out.value)
                               ELSE ErrorEnvelope(request_id, r.out),
                  raised |-> None,
                  calls |-> r.calls])

----------------------------------------------------------------------------
(* The registration decorators of the simplified API *)

\* @tool(name, description, parameters) applied to func; parameters = None when omitted
tool(name, description, parameters, func) ==
    \E params \in {ToolParameters(parameters, func)} :
        /\ IF params.ok
           THEN /\ _tools' = DictSet(_tools, name,
                                     [name |-> name, description |-> description,
                                      handler |-> func, parameters |-> params.value])
                /\ raised' = None
           ELSE /\ _tools' = _tools
                /\ raised' = params
        /\ UNCHANGED <<_resources, _prompts>>

\* @resource(uri, description) applied to func
resource(uri, description, func) ==
    /\ _resources' = DictSet(_resources, uri,
                             [uri |-> uri, description |-> description, handler |-> func])
    /\ raised' = None
    /\ UNCHANGED <<_tools, _prompts>>

\* @prompt(name, description) applied to func
prompt(name, description, func) ==
    /\ _prompts' = DictSet(_prompts, name,
                           [name |-> name, description |-> description, handler |-> func])
    /\ raised' = None
    /\ UNCHANGED <<_tools, _resources>>

----------------------------------------------------------------------------
(* The class-based API: core/server.py *)

\* bool(v) for the values tested with "or" and "if"
Truthy(v) ==
    IF IsDict(v) THEN DOMAIN v # {}
    ELSE CASE v.py = "None" -> FALSE
           [] v.py = "bool" -> v.v
           [] v.py = "str" -> v.parts # <<>>
           [] v.py = "list" -> v.items # <<>>
           [] OTHER -> TRUE

\* A member of a class as inspect.getmembers reports it: the attribute name, the
\* function and the attributes the decorators have set on the function.
Member(attr, func) == [attr |-> attr, func |-> func, marks |-> EmptyDict]

SetMark(member, mark, definition) ==
    [member EXCEPT !.marks = (mark :> definition) @@ member.marks]

\* @Tool(name, description, parameters) applied to a method
Tool(name, description, parameters, member) ==
    SetMark(member, "_mcp_tool",
            [name |-> name, description |-> description,
             parameters |-> IF Truthy(parameters) THEN parameters ELSE EmptyDict,
             handler |-> member.func])

\* @Resource(uri, description) applied to a method
Resource(uri, description, member) ==
    SetMark(member, "_mcp_resource",
            [uri |-> uri, description |-> description, handler |-> member.func])

\* @Prompt(name, description) applied to a method
Prompt(name, description, member) ==
    SetMark(member, "_mcp_prompt",
            [name |-> name, description |-> description, handler |-> member.func])

\* A loop that stores each definition under the attribute name getmembers reports
DiscoverStepByAttributeName(self, member) ==
    IF "_mcp_tool" \in DOMAIN member.marks
    THEN [self EXCEPT !.tools = DictSet(self.tools, PyStr(member.attr), member.marks["_mcp_tool"])]
    ELSE IF "_mcp_resource" \in DOMAIN member.marks
    THEN [self EXCEPT !.resources =
             DictSet(self.resources, PyStr(member.attr), member.marks["_mcp_resource"])]
    ELSE IF "_mcp_prompt" \in DOMAIN member.marks
    THEN [self EXCEPT !.prompts =
             DictSet(self.prompts, PyStr(member.attr), member.marks["_mcp_prompt"])]
    ELSE self

\* One iteration of the loop of MCPServer._discover_handlers
DiscoverStep(self, member) ==
    IF "_mcp_tool" \in DOMAIN member.marks
    THEN [self EXCEPT !.tools =
             DictSet(self.tools, member.marks["_mcp_tool"].name, member.marks["_mcp_tool"])]
    ELSE IF "_mcp_resource" \in DOMAIN member.marks
    THEN [self EXCEPT !.resources =
             DictSet(self.resources, member.marks["_mcp_resource"].uri,
                     member.marks["_mcp_resource"])]
    ELSE IF "_mcp_prompt" \in DOMAIN member.marks
    THEN [self EXCEPT !.prompts =
             DictSet(self.prompts, member.marks["_mcp_prompt"].name,
                     member.marks["_mcp_prompt"])]
    ELSE self

\* MCPServer._discover_handlers over the members, which getmembers sorts by name
RECURSIVE DiscoverHandlers(_, _, _)
DiscoverHandlers(self, members, i) ==
    IF i > Len(members) THEN self
    ELSE DiscoverHandlers(DiscoverStep(self, members[i]), members, i + 1)

\* MCPServer.__init__(config) of a subclass with the given members
MCPServer(config, members) ==
    DiscoverHandlers([config |-> IF Truthy(config) THEN config ELSE EmptyDict,
                      tools |-> <<>>, resources |-> <<>>, prompts |-> <<>>],
                     members, 1)

\* handler(self, **arguments) and handler(self, *positional): self is bound first
BindSelf(func) ==
    IF func.sig = <<>>
    THEN Raise("TypeError", Fmt(<<func.fn, "() takes 0 positional arguments but 1 was given">>))
    ELSE Ok([func EXCEPT !.sig = Tail(func.sig)])

CallMethodKw(func, arguments) ==
    Bind(BindSelf(func), LAMBDA bound :
        IF ~bound.ok THEN [out |-> bound, ran |-> FALSE]
        ELSE CallKw(bound.value, arguments))

CallMethodPos(func, positional) ==
    Bind(BindSelf(func), LAMBDA bound :
        IF ~bound.ok THEN [out |-> bound, ran |-> FALSE]
        ELSE CallPos(bound.value, positional))

\* MCPServer.handle_tool_call
handle_tool_call(self, tool_name, arguments) ==
    IF Unhashable(tool_name) THEN Routed(TypeErrorUnhashable(tool_name), <<>>)
    ELSE IF tool_name \notin DictKeys(self.tools)
    THEN Routed(Raise("ValueError", Fmt(<<"Unknown tool: ">> \o Str(tool_name))), <<>>)
    ELSE Bind(DictGet(self.tools, tool_name), LAMBDA tool_def :
         Bind(CallMethodKw(tool_def.handler, arguments), LAMBDA r :
             Routed(r.out, IF r.ran THEN <<tool_def.handler>> ELSE <<>>)))

\* MCPServer.handle_resource_request
handle_resource_request(self, uri) ==
    IF Unhashable(uri) THEN Routed(TypeErrorUnhashable(uri), <<>>)
    ELSE IF uri \notin DictKeys(self.resources)
    THEN Routed(Raise("ValueError", Fmt(<<"Unknown resource: ">> \o Str(uri))), <<>>)
    ELSE Bind(DictGet(self.resources, uri), LAMBDA resource_def :
         Bind(CallMethodPos(resource_def.handler, <<>>), LAMBDA r :
             Routed(r.out, IF r.ran THEN <<resource_def.handler>> ELSE <<>>)))

\* MCPServer.handle_prompt_request
handle_prompt_request(self, prompt_name, context) ==
    IF Unhashable(prompt_name) THEN Routed(TypeErrorUnhashable(prompt_name), <<>>)
    ELSE IF prompt_name \notin DictKeys(self.prompts)
    THEN Routed(Raise("ValueError", Fmt(<<"Unknown prompt: ">> \o Str(prompt_name))), <<>>)
    ELSE Bind(DictGet(self.prompts, prompt_name), LAMBDA prompt_def :
         Bind(CallMethodPos(prompt_def.handler, <<context>>), LAMBDA r :
             Routed(r.out, IF r.ran THEN <<prompt_def.handler>> ELSE <<>>)))

\* MCPServer.list_tools / list_resources / list_prompts
list_tools(self) ==
    PyList([i \in DOMAIN self.tools |->
               [name |-> self.tools[i].value.name,
                description |-> self.tools[i].value.description,
                parameters |-> self.tools[i].value.parameters]])

list_resources(self) ==
    PyList([i \in DOMAIN self.resources |->
               [uri |-> self.resources[i].value.uri,
                description |-> self.resources[i].value.description]])

list_prompts(self) ==
    PyList([i \in DOMAIN self.prompts |->
               [name |-> self.prompts[i].value.name,
                description |-> self.prompts[i].value.description]])

----------------------------------------------------------------------------
(* Inputs *)

SelfParam == Param("self", ParamEmpty, ParamEmpty)

\* Functions a developer registers with the simplified API
F_echo == Func("echo", <<Param("text", Type("str"), ParamEmpty)>>, "echo")
F_noop == Func("noop", <<>>, "none")
F_max == Builtin("max", "none")
F_error_tool == Func("error_tool", <<>>, "raise")
F_get_data == Func("get_data", <<>>, "data")
F_bad_data == Func("bad_data", <<>>, "raise")
\* Handlers that never return: "while True: pass", "await asyncio.Event().wait()"
F_hang == Func("hang", <<>>, "hang")
F_wait == Func("wait", <<Param("text", Type("str"), ParamEmpty)>>, "hang")
F_about == Func("about", <<Param("context", ParamEmpty, ParamEmpty)>>, "text")
F_bad_prompt == Func("bad_prompt", <<Param("context", ParamEmpty, ParamEmpty)>>, "raise")

\* The same functions as methods of an MCPServer subclass
Method(func) == [func EXCEPT !.sig = <<SelfParam>> \o func.sig]

ToolFuncs == {F_echo, F_noop, F_error_tool}
ResourceFuncs == {F_get_data, F_bad_data}
PromptFuncs == {F_about, F_bad_prompt}

ToolNames == {PyStr("t1"), PyStr("t2")}
ResourceUris == {PyStr("res://1"), PyStr("res://2")}
PromptNames == {PyStr("p1"), PyStr("p2")}

ExplicitSchema ==
    [type |-> PyStr("object"),
     properties |-> [input |-> [type |-> PyStr("string")]],
     required |-> PyList(<<PyStr("input")>>)]

\* Requests: a JSON object with any of the keys method, params, id
Absent == [py |-> "absent"]
Field(k, v) == IF v = Absent THEN EmptyDict ELSE (k :> v)
MkRequest(method, params, id) ==
    Field("jsonrpc", PyStr("2.0")) @@ Field("method", method)
        @@ Field("params", params) @@ Field("id", id)

Methods == {PyStr("initialize"), PyStr("tools/list"), PyStr("tools/call"),
            PyStr("resources/list"), PyStr("resources/read"),
            PyStr("prompts/list"), PyStr("prompts/get")}
OtherMethods == {PyStr("bogus"), Absent}

ArgumentsArgs == {Absent, EmptyDict, [text |-> PyStr("hi")]}

ParamsFor(method) ==
    CASE method = PyStr("tools/call") ->
            {Absent}
            \cup {Field("name", n) @@ Field("arguments", a) :
                    n \in ToolNames, a \in ArgumentsArgs}
      [] method = PyStr("resources/read") ->
            {Absent} \cup {Field("uri", u) : u \in ResourceUris}
      [] method = PyStr("prompts/get") ->
            {Absent}
            \cup {Field("name", n) @@ Field("context", c) :
                    n \in PromptNames, c \in {Absent, [topic |-> PyStr("Python")]}}
      [] OTHER -> {Absent}

RequestIds == {Absent, PyInt(7), PyStr("r")}

Requests ==
    UNION {{MkRequest(m, p, i) : p \in ParamsFor(m), i \in RequestIds} :
              m \in Methods \cup OtherMethods}

\* The registrations of a served application: one tool that binds an argument, one
\* that returns None or raises, a resource and a prompt that return or raise.
ServedTools == {<<PyStr("t1"), F_echo>>, <<PyStr("t2"), F_noop>>, <<PyStr("t2"), F_error_tool>>}
ServedResources == {<<PyStr("res://1"), F_get_data>>, <<PyStr("res://1"), F_bad_data>>}
ServedPrompts == {<<PyStr("p1"), F_about>>, <<PyStr("p1"), F_bad_prompt>>}

\* What arrives on stdin: the JSON text of these values, and a line that is no JSON
StdinValues ==
    {MkRequest(PyStr("bogus"), Absent, Absent),
     MkRequest(PyStr("bogus"), Absent, PyInt(7)),
     MkRequest(PyStr("tools/list"), Absent, PyInt(7)),
     MkRequest(PyStr("tools/call"), [name |-> PyStr("t1"), arguments |-> [text |-> PyStr("hi")]],
               PyStr("r")),
     MkRequest(PyStr("tools/call"), [name |-> PyStr("t2")], Absent),
     MkRequest(PyStr("prompts/get"),
               [name |-> PyStr("p1"), context |-> [topic |-> PyStr("Python")]], PyInt(7)),
     PyList(<<>>)}

\* Decoded JSON that is no well-formed request: a value that is not an object,
\* params that is null or not an object, arguments that is null or not an object
MalformedRequests ==
    {PyList(<<>>), None,
     MkRequest(PyStr("tools/list"), None, PyInt(7)),
     MkRequest(PyStr("tools/call"), None, PyInt(7)),
     MkRequest(PyStr("tools/call"), PyList(<<>>), PyInt(7)),
     MkRequest(PyStr("tools/call"), [name |-> PyStr("t1"), arguments |-> None], PyInt(7)),
     MkRequest(PyStr("tools/call"), [name |-> PyStr("t1"), arguments |-> PyList(<<>>)],
               PyInt(7))}

\* Every value json.loads can hand to handle_request
DecodedValues == Requests \cup MalformedRequests

LineOf(v) == Fmt(JsonText(v) \o <<"\n">>)
InvalidLine == Fmt(<<"not json", "\n">>)
StdinLines == {LineOf(v) : v \in StdinValues} \cup {InvalidLine}

\* sys.stdin.readline() at end of stream
EOF == Fmt(<<>>)

----------------------------------------------------------------------------
(* json.loads *)

Strip(parts) ==
    IF parts # <<>> /\ parts[Len(parts)] = "\n" THEN SubSeq(parts, 1, Len(parts) - 1)
    ELSE parts

\* The numbers the decoder reads: the error codes and the small integers
Numerals == (-32700 .. -32600) \cup (-1 .. 10)

\* The decoder's outcome at a position: the value read and the position after it
Parsed(v, n) == [ok |-> TRUE, value |-> v, next |-> n]
ParseError == [ok |-> FALSE]

RECURSIVE ParseValue(_, _)
RECURSIVE ParseMembers(_, _, _)
RECURSIVE ParseItems(_, _, _)

\* The members of an object from position i on: "key": value, ... }
\* (a key that occurs twice keeps its last value)
ParseMembers(t, i, acc) ==
    IF i + 2 > Len(t) THEN ParseError
    ELSE IF t[i] # "\"" \/ t[i + 2] # "\": " THEN ParseError
    ELSE Bind(ParseValue(t, i + 3), LAMBDA m :
        IF ~m.ok THEN ParseError
        ELSE IF m.next > Len(t) THEN ParseError
        ELSE IF t[m.next] = "}" THEN Parsed((t[i + 1] :> m.value) @@ acc, m.next + 1)
        ELSE IF t[m.next] = ", "
        THEN ParseMembers(t, m.next + 1, (t[i + 1] :> m.value) @@ acc)
        ELSE ParseError)

\* The items of an array from position i on: value, ... ]
ParseItems(t, i, acc) ==
    Bind(ParseValue(t, i), LAMBDA m :
        IF ~m.ok THEN ParseError
        ELSE IF m.next > Len(t) THEN ParseError
        ELSE IF t[m.next] = "]" THEN Parsed(PyList(Append(acc, m.value)), m.next + 1)
        ELSE IF t[m.next] = ", " THEN ParseItems(t, m.next + 1, Append(acc, m.value))
        ELSE ParseError)

\* The JSON value that starts at position i of the text t
ParseValue(t, i) ==
    IF i > Len(t) THEN ParseError
    ELSE CASE t[i] = "null" -> Parsed(None, i + 1)
           [] t[i] = "true" -> Parsed(PyBool(TRUE), i + 1)
           [] t[i] = "false" -> Parsed(PyBool(FALSE), i + 1)
           [] t[i] = "{}" -> Parsed(EmptyDict, i + 1)
           [] t[i] = "[]" -> Parsed(PyList(<<>>), i + 1)
           [] t[i] = "{" -> ParseMembers(t, i + 1, EmptyDict)
           [] t[i] = "[" -> ParseItems(t, i + 1, <<>>)
           [] t[i] = "\"" ->
                LET close == {j \in (i + 1)..Len(t) : t[j] = "\""}
                IN  IF close = {} THEN ParseError
                    ELSE LET j == CHOOSE c \in close : \A d \in close : c <= d
                         IN  Parsed(Fmt(SubSeq(t, i + 1, j - 1)), j + 1)
           [] OTHER ->
                IF \E n \in Numerals : ToString(n) = t[i]
                THEN Parsed(PyInt(CHOOSE n \in Numerals : ToString(n) = t[i]), i + 1)
                ELSE ParseError

\* json.loads(text): the value the text denotes, or JSONDecodeError
JsonLoads(text) ==
    Bind(ParseValue(Strip(text.parts), 1), LAMBDA m :
        IF m.ok /\ m.next = Len(Strip(text.parts)) + 1 THEN Ok(m.value)
        ELSE Raise("JSONDecodeError", Fmt(<<"Expecting value: line 1 column 1 (char 0)">>)))

----------------------------------------------------------------------------
(* simplified.serve and simplified._stdio_server *)

\* f"Error: {e}\n"
ErrorLine(e) == Fmt(<<"Error: ">> \o Str(e.message) \o <<"\n">>)

\* An iteration that answers successes only: an error response is not written
StdioIterationDroppingErrors(line) ==
    IF ~Truthy(line)
    THEN [loop |-> "exited", out |-> <<>>, err |-> <<>>,
          request |-> None, response |-> None, calls |-> <<>>]
    ELSE Bind(JsonLoads(line), LAMBDA parsed :
         IF ~parsed.ok
         THEN [loop |-> "running", out |-> <<>>, err |-> <<ErrorLine(parsed)>>,
               request |-> None, response |-> None, calls |-> <<>>]
         ELSE Bind(handle_request(parsed.value), LAMBDA r :
              IF r.raised # None
              THEN [loop |-> "running", out |-> <<>>, err |-> <<ErrorLine(r.raised)>>,
                    request |-> parsed.value, response |-> None, calls |-> r.calls]
              ELSE Bind(JsonDumps(r.returned), LAMBDA dumped :
                  IF ~dumped.ok
                  THEN [loop |-> "running", out |-> <<>>, err |-> <<ErrorLine(dumped)>>,
                        request |-> parsed.value, response |-> r.returned, calls |-> r.calls]
                  ELSE [loop |-> "running",
                        out |-> IF "error" \in DOMAIN r.returned THEN <<>>
                                ELSE <<Fmt(dumped.value.parts \o <<"\n">>)>>,
                        err |-> <<>>,
                        request |-> parsed.value, response |-> r.returned,
                        calls |-> r.calls])))

\* A loop that awaits handle_request under a timeout: the TimeoutError is caught
\* like any exception and the loop reads on
StdioIterationWithTimeout(line) ==
    IF ~Truthy(line)
    THEN [loop |-> "exited", out |-> <<>>, err |-> <<>>,
          request |-> None, response |-> None, calls |-> <<>>]
    ELSE Bind(JsonLoads(line), LAMBDA parsed :
         IF ~parsed.ok
         THEN [loop |-> "running", out |-> <<>>, err |-> <<ErrorLine(parsed)>>,
               request |-> None, response |-> None, calls |-> <<>>]
         ELSE Bind(handle_request(parsed.value), LAMBDA r :
              IF r.raised # None
              THEN [loop |-> "running", out |-> <<>>, err |-> <<ErrorLine(IF r.raised = NeverReturns
                                                     THEN Raise("TimeoutError", Fmt(<<>>))
                                                     ELSE r.raised)>>,
                    request |-> parsed.value, response |-> None, calls |-> r.calls]
              ELSE Bind(JsonDumps(r.returned), LAMBDA dumped :
                  IF ~dumped.ok
                  THEN [loop |-> "running", out |-> <<>>, err |-> <<ErrorLine(dumped)>>,
                        request |-> parsed.value, response |-> r.returned, calls |-> r.calls]
                  ELSE [loop |-> "running",
                        out |-> <<Fmt(dumped.value.parts \o <<"\n">>)>>, err |-> <<>>,
                        request |-> parsed.value, response |-> r.returned,
                        calls |-> r.calls])))

\* One iteration of the while loop of _stdio_server, readline having returned line:
\* the new values of loop, stdout and stderr, and what the iteration observed
StdioIteration(line) ==
    IF ~Truthy(line)
    THEN [loop |-> "exited", out |-> <<>>, err |-> <<>>,
          request |-> None, response |-> None, calls |-> <<>>]
    ELSE Bind(JsonLoads(line), LAMBDA parsed :
         IF ~parsed.ok
         THEN [loop |-> "running", out |-> <<>>, err |-> <<ErrorLine(parsed)>>,
               request |-> None, response |-> None, calls |-> <<>>]
         ELSE Bind(handle_request(parsed.value), LAMBDA r :
              IF r.raised = NeverReturns
              THEN [loop |-> "hung", out |-> <<>>, err |-> <<>>,
                    request |-> parsed.value, response |-> None, calls |-> r.calls]
              ELSE IF r.raised # None
              THEN [loop |-> "running", out |-> <<>>, err |-> <<ErrorLine(r.raised)>>,
                    request |-> parsed.value, response |-> None, calls |-> r.calls]
              ELSE Bind(JsonDumps(r.returned), LAMBDA dumped :
                  IF ~dumped.ok
                  THEN [loop |-> "running", out |-> <<>>, err |-> <<ErrorLine(dumped)>>,
                        request |-> parsed.value, response |-> r.returned, calls |-> r.calls]
                  ELSE [loop |-> "running",
                        out |-> <<Fmt(dumped.value.parts \o <<"\n">>)>>, err |-> <<>>,
                        request |-> parsed.value, response |-> r.returned,
                        calls |-> r.calls])))

----------------------------------------------------------------------------
(* local_server.handle_stdio *)

MethodNotFound == -32601
InternalError == -32603

\* The module logger of core/server.py in environment e: structlog.get_logger()
\* when structlog is installed, and structlog left unconfigured prints every
\* event to sys.stdout; else logging.getLogger, whose records go to the handlers
\* of the logging module (sys.stderr), which the model does not follow.
LogsToStdout(e) == e.logger = "structlog"

\* The line structlog prints for logger.info(event, key=value)
StructlogLine(event, key, value) ==
    Fmt(<<"[info     ] ", event, " ", key, "=">> \o Str(value) \o <<"\n">>)

\* What MCPServer.__init__ logs once the handlers are discovered
InitializedLog(e, self) ==
    IF LogsToStdout(e)
    THEN <<StructlogLine("MCP Server initialized", "tools", PyInt(Len(self.tools)))>>
    ELSE <<>>

\* A handler that returns: the server logs its success before it returns the value
Returns(func) == func.body # "raise"

\* What handle_tool_call, handle_resource_request or handle_prompt_request log
\* for a request whose handler, the one of calls, returned
HandledLog(e, method, params, called) ==
    IF ~LogsToStdout(e) \/ called = <<>> THEN <<>>
    ELSE IF ~Returns(called[1]) THEN <<>>
    ELSE CASE method = PyStr("tools/call") ->
                <<StructlogLine("Tool executed", "tool", Get(params, "name", None))>>
           [] method = PyStr("resources/read") ->
                <<StructlogLine("Resource served", "uri", Get(params, "uri", None))>>
           [] method = PyStr("prompts/get") ->
                <<StructlogLine("Prompt generated", "prompt", Get(params, "name", None))>>
           [] OTHER -> <<>>

\* The try block of handle_stdio: [result, error, calls]
LocalRoute(self, method, params) ==
    LET \* result = value, or the except block when the branch raised
        Done(x) == Bind(x, LAMBDA r :
            IF r.out.ok THEN [result |-> r.out.value, error |-> None, calls |-> r.calls]
            ELSE [result |-> None,
                  error |-> [code |-> PyInt(InternalError), message |-> Fmt(Str(r.out.message))],
                  calls |-> r.calls])
        \* {..., "text": json.dumps(value)} once the call has returned
        Dumped(x, Wrap(_)) == Bind(x, LAMBDA r :
            IF ~r.out.ok THEN r
            ELSE Bind(JsonDumps(r.out.value), LAMBDA dumped :
                     IF ~dumped.ok THEN Routed(dumped, r.calls)
                     ELSE Routed(Ok(Wrap(dumped.value)), r.calls)))
        NoGet == Routed(AttributeErrorGet(params), <<>>)
    IN
    IF method = PyStr("initialize")
    THEN Done(Routed(Ok([protocolVersion |-> PyStr("1.0"),
                         capabilities |-> [tools |-> [listChanged |-> PyBool(FALSE)],
                                           resources |-> [subscribe |-> PyBool(FALSE),
                                                          listChanged |-> PyBool(FALSE)],
                                           prompts |-> [listChanged |-> PyBool(FALSE)]],
                         serverInfo |-> [name |-> Get(self.config, "name", None),
                                         version |-> Get(self.config, "version", None)]]),
                     <<>>))
    ELSE IF method = PyStr("tools/list")
    THEN Done(Routed(Ok([tools |-> list_tools(self)]), <<>>))
    ELSE IF method = PyStr("tools/call")
    THEN IF ~IsDict(params) THEN Done(NoGet)
         ELSE Done(Dumped(handle_tool_call(self, Get(params, "name", None),
                                           Get(params, "arguments", EmptyDict)),
                          LAMBDA text : [content |-> PyList(<<[type |-> PyStr("text"),
                                                               text |-> text]>>)]))
    ELSE IF method = PyStr("resources/list")
    THEN Done(Routed(Ok([resources |-> list_resources(self)]), <<>>))
    ELSE IF method = PyStr("resources/read")
    THEN IF ~IsDict(params) THEN Done(NoGet)
         ELSE Done(Dumped(handle_resource_request(self, Get(params, "uri", None)),
                          LAMBDA text : [contents |-> PyList(<<[uri |-> Get(params, "uri", None),
                                                                text |-> text]>>)]))
    ELSE IF method = PyStr("prompts/list")
    THEN Done(Routed(Ok([prompts |-> list_prompts(self)]), <<>>))
    ELSE IF method = PyStr("prompts/get")
    THEN IF ~IsDict(params) THEN Done(NoGet)
         ELSE Done(Bind(handle_prompt_request(self, Get(params, "name", None),
                                              Get(params, "context", EmptyDict)),
                        LAMBDA r : IF ~r.out.ok THEN r
                                   ELSE Routed(Ok([description |-> r.out.value]), r.calls)))
    ELSE [result |-> None,
          error |-> [code |-> PyInt(MethodNotFound),
                     message |-> Fmt(<<"Method not found: ">> \o Str(method))],
          calls |-> <<>>]

\* "Build response": the envelope written to stdout
LocalResponse(request_id, result, error) ==
    IF Truthy(error)
    THEN [jsonrpc |-> PyStr("2.0"), id |-> request_id, error |-> error]
    ELSE [jsonrpc |-> PyStr("2.0"), id |-> request_id, result |-> result]

\* One iteration of the while loop of handle_stdio, readline having returned line
LocalIteration(e, self, line) ==
    IF ~Truthy(line)
    THEN [loop |-> "exited", out |-> <<>>, err |-> <<>>,
          request |-> None, response |-> None, calls |-> <<>>]
    ELSE Bind(JsonLoads(line), LAMBDA parsed :
         IF ~parsed.ok
         THEN [loop |-> "running", out |-> <<>>, err |-> <<>>,
               request |-> None, response |-> None, calls |-> <<>>]
         ELSE IF ~IsDict(parsed.value)
         THEN [loop |-> "running", out |-> <<>>,
               err |-> <<ErrorLine(AttributeErrorGet(parsed.value))>>,
               request |-> parsed.value, response |-> None, calls |-> <<>>]
         ELSE Bind(LocalRoute(self, Get(parsed.value, "method", PyStr("")),
                              Get(parsed.value, "params", EmptyDict)), LAMBDA r :
              Bind(LocalResponse(Get(parsed.value, "id", PyInt(1)), r.result, r.error),
                   LAMBDA resp :
              Bind(HandledLog(e, Get(parsed.value, "method", PyStr("")),
                              Get(parsed.value, "params", EmptyDict), r.calls),
                   LAMBDA logged :
              Bind(JsonDumps(resp), LAMBDA dumped :
                  IF ~dumped.ok
                  THEN [loop |-> "running", out |-> logged, err |-> <<ErrorLine(dumped)>>,
                        request |-> parsed.value, response |-> resp, calls |-> r.calls]
                  ELSE [loop |-> "running",
                        out |-> logged \o <<Fmt(dumped.value.parts \o <<"\n">>)>>,
                        err |-> <<>>,
                        request |-> parsed.value, response |-> resp, calls |-> r.calls])))))

----------------------------------------------------------------------------
(* core/protocol.py and core/handlers.py: LambdaHandler.handle *)

IsStr(v) == IF IsDict(v) THEN FALSE ELSE v.py = "str"
IsInt(v) == IF IsDict(v) THEN FALSE ELSE v.py = "int"

\* The optional packages: pydantic (else the fallback BaseModel) and structlog (else
\* the logging module, whose INFO level may or may not be enabled)
Envs == [pydantic : BOOLEAN, logger : {"structlog", "logging_info", "logging_warning"}]

ValidationError(field) ==
    Raise("ValidationError", Fmt(<<"1 validation error for ", field>>))

\* MCPRequest(jsonrpc=..., id=..., method=..., params=...)
MCPRequest(e, jsonrpc, id, method, params) ==
    IF e.pydantic /\ ~IsStr(jsonrpc) THEN ValidationError("MCPRequest jsonrpc")
    ELSE IF e.pydantic /\ ~(IsStr(id) \/ IsInt(id)) THEN ValidationError("MCPRequest id")
    ELSE IF e.pydantic /\ ~IsStr(method) THEN ValidationError("MCPRequest method")
    ELSE IF e.pydantic /\ ~(IsDict(params) \/ params = None)
    THEN ValidationError("MCPRequest params")
    ELSE Ok([jsonrpc |-> jsonrpc, id |-> id, method |-> method, params |-> params])

\* An adapter that parses the body but reads the request from the event around it
from_lambda_eventReadingEvent(e, event) ==
    Bind(IF "body" \in DOMAIN event
         THEN IF IsStr(event.body) THEN JsonLoads(event.body) ELSE Ok(event.body)
         ELSE Ok(event), LAMBDA loaded :
        IF ~loaded.ok THEN loaded
        ELSE IF ~IsDict(loaded.value) THEN AttributeErrorGet(loaded.value)
        ELSE MCPRequest(e, Get(event, "jsonrpc", PyStr("2.0")),
                        Get(event, "id", PyInt(1)),
                        Get(event, "method", PyStr("")),
                        Get(event, "params", EmptyDict)))

\* ProtocolAdapter.from_lambda_event
from_lambda_event(e, event) ==
    Bind(IF "body" \in DOMAIN event
         THEN IF IsStr(event.body) THEN JsonLoads(event.body) ELSE Ok(event.body)
         ELSE Ok(event), LAMBDA loaded :
        IF ~loaded.ok THEN loaded
        ELSE IF ~IsDict(loaded.value) THEN AttributeErrorGet(loaded.value)
        ELSE MCPRequest(e, Get(loaded.value, "jsonrpc", PyStr("2.0")),
                        Get(loaded.value, "id", PyInt(1)),
                        Get(loaded.value, "method", PyStr("")),
                        Get(loaded.value, "params", EmptyDict)))

\* MCPResponse(**kwargs): the fields the instance holds (all of them under pydantic,
\* the keyword arguments given under the fallback BaseModel)
MCPResponse(e, kwargs) ==
    IF e.pydantic
    THEN IF ~(IsStr(kwargs.id) \/ IsInt(kwargs.id)) THEN ValidationError("MCPResponse id")
         ELSE Ok([jsonrpc |-> PyStr("2.0"), id |-> kwargs.id,
                  result |-> Get(kwargs, "result", None),
                  error |-> Get(kwargs, "error", None)])
    ELSE Ok(kwargs)

\* ProtocolAdapter.create_error_response
create_error_response(e, request_id, code, message) ==
    MCPResponse(e, [id |-> request_id,
                    error |-> [code |-> code, message |-> message, data |-> None]])

\* ProtocolAdapter.create_success_response
create_success_response(e, request_id, result) ==
    MCPResponse(e, [id |-> request_id, result |-> result])

CorsHeaders ==
    ("Access-Control-Allow-Origin" :> PyStr("*"))
    @@ ("Access-Control-Allow-Methods" :> PyStr("POST, OPTIONS"))
    @@ ("Access-Control-Allow-Headers" :> PyStr("Content-Type"))

\* An adapter whose body is str(response.__dict__) in place of its JSON text
to_lambda_responseAsStr(fields, status_code) ==
    Ok([statusCode |-> PyInt(status_code),
        headers |-> ("Content-Type" :> PyStr("application/json")) @@ CorsHeaders,
        body |-> Fmt(Format(fields))])

\* ProtocolAdapter.to_lambda_response: the Lambda response, or the exception of the encoder
to_lambda_response(fields, status_code) ==
    Bind(JsonDumps(fields), LAMBDA dumped :
        IF ~dumped.ok THEN dumped
        ELSE Ok([statusCode |-> PyInt(status_code),
                 headers |-> ("Content-Type" :> PyStr("application/json")) @@ CorsHeaders,
                 body |-> dumped.value]))

\* The environments of local_server.py: handle_stdio does not touch pydantic, and
\* the records of the logging module leave stdout alone whatever its level
LocalEnvs == {e \in Envs : e.pydantic /\ e.logger \in {"structlog", "logging_info"}}

\* LambdaHandler._route_request
_route_request(self, req) ==
    LET method == req.method
        params == IF Truthy(req.params) THEN req.params ELSE EmptyDict
        NeedsParams == method \in {PyStr("tools/call"), PyStr("resources/read"), PyStr("prompts/get")}
    IN  IF NeedsParams /\ ~IsDict(params) THEN Routed(AttributeErrorGet(params), <<>>)
        ELSE IF method = PyStr("initialize")
        THEN Routed(Ok(InitializeResult(self.config, PyStr("mcp-framework-server"),
                                        PyStr("0.1.0"))), <<>>)
        ELSE IF method = PyStr("tools/list") THEN Routed(Ok(list_tools(self)), <<>>)
        ELSE IF method = PyStr("tools/call")
        THEN handle_tool_call(self, Get(params, "name", None),
                              Get(params, "arguments", EmptyDict))
        ELSE IF method = PyStr("resources/list") THEN Routed(Ok(list_resources(self)), <<>>)
        ELSE IF method = PyStr("resources/read")
        THEN handle_resource_request(self, Get(params, "uri", None))
        ELSE IF method = PyStr("prompts/list") THEN Routed(Ok(list_prompts(self)), <<>>)
        ELSE IF method = PyStr("prompts/get")
        THEN handle_prompt_request(self, Get(params, "name", None),
                                   Get(params, "context", EmptyDict))
        ELSE UnknownMethod(method)

\* logger.info(msg, key=value, ...) and logger.error(msg, key=value, ...)
LoggerKwargsError ==
    Raise("TypeError", Fmt(<<"Logger._log() got an unexpected keyword argument">>))
LogInfoRaises(e) == e.logger = "logging_info"
LogErrorRaises(e) == e.logger # "structlog"

\* LambdaHandler.handle(event, context):
\* [returned, raised, mcp_response: the MCPResponse built or None, calls]
handle(e, self, event) ==
    IF Get(event, "httpMethod", None) = PyStr("OPTIONS")
    THEN [returned |-> [statusCode |-> PyInt(200), headers |-> CorsHeaders, body |-> PyStr("")],
          raised |-> None, mcp_response |-> None, calls |-> <<>>]
    ELSE
    Bind(from_lambda_event(e, event), LAMBDA parsed :
    Bind(IF ~parsed.ok THEN Routed(parsed, <<>>)
         ELSE IF LogInfoRaises(e) THEN Routed(LoggerKwargsError, <<>>)
         ELSE _route_request(self, parsed.value), LAMBDA routed :
    \* the try block ends with the success response, the except block builds the error
    Bind(IF routed.out.ok
         THEN create_success_response(e, parsed.value.id, routed.out.value)
         ELSE routed.out, LAMBDA success :
    Bind(IF success.ok THEN success
         ELSE IF LogErrorRaises(e) THEN LoggerKwargsError
         ELSE create_error_response(e, Get(event, "id", PyInt(1)),
                                    PyInt(InternalError), Fmt(Str(success.message))),
         LAMBDA built :
    IF ~built.ok
    THEN [returned |-> None, raised |-> built, mcp_response |-> None, calls |-> routed.calls]
    ELSE Bind(to_lambda_response(built.value, 200), LAMBDA out :
             [returned |-> IF out.ok THEN out.value ELSE None,
              raised |-> IF out.ok THEN None ELSE out,
              mcp_response |-> built.value, calls |-> routed.calls])))))

\* The classes of a served application: the methods in the order of their names
ServedClass(f, g, h) ==
    <<Tool(PyStr("t1"), PyStr(""), None, Member("a_echo", Method(F_echo))),
      Tool(PyStr("t2"), PyStr(""), None, Member("b_tool", Method(f))),
      Resource(PyStr("res://1"), PyStr(""), Member("c_resource", Method(g))),
      Prompt(PyStr("p1"), PyStr(""), Member("d_prompt", Method(h)))>>

ServedClasses ==
    {<<>>, ServedClass(F_noop, F_get_data, F_about),
     ServedClass(F_error_tool, F_bad_data, F_bad_prompt)}

Post == [httpMethod |-> PyStr("POST")]

\* The events a gateway hands to a Lambda handler
LambdaRequests == {r \in Requests : Get(r, "id", PyInt(7)) = PyInt(7)}

LambdaEvents ==
    {[httpMethod |-> PyStr("OPTIONS")], Post,
     Post @@ [body |-> Fmt(<<"invalid json">>)]}
    \cup {Post @@ [body |-> Fmt(JsonText(r))] : r \in LambdaRequests}
    \cup {Post @@ MkRequest(PyStr("tools/list"), Absent, PyInt(7)),
          Post @@ MkRequest(PyStr("bogus"), Absent, Absent)}

ServerConfig == [name |-> PyStr("demo-mcp-server"), version |-> PyStr("0.1.0")]

----------------------------------------------------------------------------
(* simplified.lambda_handler *)

\* The headers of every response lambda_handler returns
LambdaHeaders ==
    ("Content-Type" :> PyStr("application/json"))
    @@ ("Access-Control-Allow-Origin" :> PyStr("*"))

\* lambda_handler(event, context):
\* [returned: the Lambda response, raised: the exception that left it or None, calls]
lambda_handler(event) ==
    Bind(IF "body" \in DOMAIN event
         THEN IF IsStr(event.body) THEN JsonLoads(event.body) ELSE Ok(event.body)
         ELSE Ok(event), LAMBDA body :
    IF ~body.ok THEN [returned |-> None, raised |-> body, calls |-> <<>>]
    ELSE Bind(handle_request(body.value), LAMBDA r :
         IF r.raised # None THEN [returned |-> None, raised |-> r.raised, calls |-> r.calls]
         ELSE Bind(JsonDumps(r.returned), LAMBDA dumped :
              IF ~dumped.ok THEN [returned |-> None, raised |-> dumped, calls |-> r.calls]
              ELSE [returned |-> [statusCode |-> PyInt(200),
                                  headers |-> LambdaHeaders,
                                  body |-> dumped.value],
                    raised |-> None, calls |-> r.calls])))

\* The events a gateway hands to lambda_handler: a CORS preflight (with the null
\* body of a proxy event, or without body), requests as the text of the body, a
\* body that is no JSON, a body that is no object, a body already decoded, and
\* a direct invocation whose event is the request
SimplifiedLambdaEvents ==
    {[httpMethod |-> PyStr("OPTIONS")],
     [httpMethod |-> PyStr("OPTIONS"), body |-> None],
     Post @@ [body |-> Fmt(<<"invalid json">>)],
     Post @@ [body |-> Fmt(JsonText(PyList(<<>>)))],
     Post @@ [body |-> MkRequest(PyStr("tools/list"), Absent, PyInt(7))],
     MkRequest(PyStr("tools/list"), Absent, PyInt(7))}
    \cup {Post @@ [body |-> Fmt(JsonText(r))] :
              r \in {MkRequest(PyStr("tools/list"), Absent, PyInt(7)),
                     MkRequest(PyStr("tools/call"),
                               [name |-> PyStr("t1"), arguments |-> [text |-> PyStr("hi")]],
                               PyInt(7)),
                     MkRequest(PyStr("tools/call"), [name |-> PyStr("t2")], PyInt(7)),
                     MkRequest(PyStr("bogus"), Absent, PyInt(7))}}

----------------------------------------------------------------------------
(* The specification: an application registers its handlers and serves requests *)

NoDispatch ==
    /\ request' = None
    /\ response' = None
    /\ calls' = <<>>
    /\ mcp_response' = None
    /\ wrote' = <<>>

NoObservation ==
    /\ NoDispatch
    /\ raised' = None

\* Before anything has run: empty registries, no server, nothing observed
Blank ==
    /\ _tools = <<>>
    /\ _resources = <<>>
    /\ _prompts = <<>>
    /\ _server_config = EmptyDict
    /\ op = "init"
    /\ request = None
    /\ response = None
    /\ raised = None
    /\ calls = <<>>
    /\ env = None
    /\ server = None
    /\ mcp_response = None
    /\ loop = "idle"
    /\ nlines = 0
    /\ input = None
    /\ stdout = <<>>
    /\ stderr = <<>>
    /\ wrote = <<>>

Init ==
    /\ Blank
    /\ program \in {"simplified", "class"}
    /\ regs = <<>>
    /\ pending = None

\* A decorator of the simplified API runs (at import, before a server exists or starts)
Registering ==
    /\ program = "simplified"
    /\ loop = "idle"
    /\ server = None
    /\ op' = "register"
    /\ NoDispatch
    /\ UNCHANGED <<_server_config, program, env, server, loop, nlines, input, stdout, stderr>>

RegisterTool ==
    \E t \in ServedTools :
        /\ Registering
        /\ tool(t[1], PyStr(""), None, t[2])
        /\ UNCHANGED history

RegisterResource ==
    \E r \in ServedResources :
        /\ Registering
        /\ resource(r[1], PyStr(""), r[2])
        /\ UNCHANGED history

RegisterPrompt ==
    \E p \in ServedPrompts :
        /\ Registering
        /\ prompt(p[1], PyStr(""), p[2])
        /\ UNCHANGED history

\* (a dispatcher that unregisters the tools once a handler has run)
HandleRequestUnregistering ==
    /\ program = "simplified"
    /\ loop = "idle"
    /\ \E req \in DecodedValues :
        \E r \in {handle_request(req)} :
            /\ op' = "handle_request"
            /\ request' = req
            /\ response' = r.returned
            /\ raised' = r.raised
            /\ calls' = r.calls
            /\ mcp_response' = None
            /\ wrote' = <<>>
            /\ _tools' = IF r.calls = <<>> THEN _tools ELSE <<>>
            /\ UNCHANGED <<_resources, _prompts, _server_config, history, program, env,
                           server, loop, nlines, input, stdout, stderr>>

\* A caller (a test, an embedding application) awaits handle_request(req)
HandleRequest ==
    /\ program = "simplified"
    /\ loop = "idle"
    /\ \E req \in DecodedValues :
        \E r \in {handle_request(req)} :
            /\ op' = "handle_request"
            /\ request' = req
            /\ response' = r.returned
            /\ raised' = r.raised
            /\ calls' = r.calls
            /\ mcp_response' = None
            /\ wrote' = <<>>
            /\ UNCHANGED <<registry, _server_config, history, program, env, server,
                           loop, nlines, input, stdout, stderr>>

\* The gateway calls simplified.lambda_handler(event, context)
InvokeLambdaHandler ==
    /\ program = "simplified"
    /\ loop = "idle"
    /\ \E event \in SimplifiedLambdaEvents :
        \E r \in {lambda_handler(event)} :
            /\ op' = "lambda_handler"
            /\ request' = event
            /\ response' = r.returned
            /\ raised' = r.raised
            /\ calls' = r.calls
            /\ mcp_response' = None
            /\ wrote' = <<>>
            /\ UNCHANGED <<registry, _server_config, history, program, env, server,
                           loop, nlines, input, stdout, stderr>>

\* serve(name, version): the banner goes to stderr and the stdio loop starts
Serve ==
    /\ program = "simplified"
    /\ loop = "idle"
    /\ _server_config' = [name |-> PyStr("mcp-server"), version |-> PyStr("1.0.0")]
    /\ stderr' = stderr \o <<Fmt(<<"Starting ", "mcp-server", " v", "1.0.0", "...\n">>),
                             Fmt(<<"Tools: ", ToString(Len(_tools)),
                                   ", Resources: ", ToString(Len(_resources)),
                                   ", Prompts: ", ToString(Len(_prompts)), "\n">>)>>
    /\ loop' = "running"
    /\ op' = "serve"
    /\ NoObservation
    /\ UNCHANGED <<registry, history, program, env, server, nlines, input, stdout>>

\* The input: any line while fewer than MaxLines were read, then end of stream
Readline ==
    IF nlines < MaxLines THEN StdinLines \cup {EOF} ELSE {EOF}

\* A loop whose except clause is outside the while: the first failure ends it
StdioServerStepStoppingOnError ==
    /\ program = "simplified"
    /\ loop = "running"
    /\ \E line \in Readline :
        \E it \in {StdioIteration(line)} :
            /\ nlines' = nlines + 1
            /\ input' = line
            /\ loop' = IF it.err # <<>> THEN "exited" ELSE it.loop
            /\ stdout' = stdout \o it.out
            /\ stderr' = stderr \o it.err
            /\ wrote' = it.out
            /\ op' = "stdio"
            /\ request' = it.request
            /\ response' = it.response
            /\ calls' = it.calls
            /\ raised' = None
            /\ mcp_response' = None
            /\ UNCHANGED <<registry, _server_config, history, program, env, server>>

\* _stdio_server reads a line and handles it
StdioServerStep ==
    /\ program = "simplified"
    /\ loop = "running"
    /\ \E line \in Readline :
        \E it \in {StdioIteration(line)} :
            /\ nlines' = nlines + 1
            /\ input' = line
            /\ loop' = it.loop
            /\ stdout' = stdout \o it.out
            /\ stderr' = stderr \o it.err
            /\ wrote' = it.out
            /\ op' = "stdio"
            /\ request' = it.request
            /\ response' = it.response
            /\ calls' = it.calls
            /\ raised' = None
            /\ mcp_response' = None
            /\ UNCHANGED <<registry, _server_config, history, program, env, server>>

\* local_server.handle_stdio constructs the server and enters its loop
LocalServerStart ==
    \E members \in ServedClasses, e \in LocalEnvs :
        /\ program = "class"
        /\ server = None
        /\ env' = e
        /\ server' = MCPServer(ServerConfig, members)
        /\ stdout' = stdout \o InitializedLog(e, MCPServer(ServerConfig, members))
        /\ wrote' = InitializedLog(e, MCPServer(ServerConfig, members))
        /\ loop' = "running"
        /\ op' = "local_server"
        /\ request' = None
        /\ response' = None
        /\ calls' = <<>>
        /\ mcp_response' = None
        /\ raised' = None
        /\ UNCHANGED <<registry, _server_config, history, program, nlines, input,
                       stderr>>

\* handle_stdio reads a line and handles it
LocalServerStep ==
    /\ program = "class"
    /\ loop = "running"
    /\ \E line \in Readline :
        \E it \in {LocalIteration(env, server, line)} :
            /\ nlines' = nlines + 1
            /\ input' = line
            /\ loop' = it.loop
            /\ stdout' = stdout \o it.out
            /\ stderr' = stderr \o it.err
            /\ wrote' = it.out
            /\ op' = "local_stdio"
            /\ request' = it.request
            /\ response' = it.response
            /\ calls' = it.calls
            /\ raised' = None
            /\ mcp_response' = None
            /\ UNCHANGED <<registry, _server_config, history, program, env, server>>

\* create_lambda_handler(server_class, config)
CreateLambdaHandler ==
    \E members \in ServedClasses, e \in Envs :
        /\ program = "class"
        /\ server = None
        /\ env' = e
        /\ server' = MCPServer(ServerConfig, members)
        /\ op' = "create_lambda_handler"
        /\ NoObservation
        /\ UNCHANGED <<registry, _server_config, history, program, loop, nlines,
                       input, stdout, stderr>>

\* The gateway calls LambdaHandler.handle(event, context)
LambdaHandle ==
    /\ program = "class"
    /\ server # None
    /\ loop = "idle"
    /\ \E event \in LambdaEvents :
        \E r \in {handle(env, server, event)} :
            /\ op' = "handle"
            /\ request' = event
            /\ response' = r.returned
            /\ raised' = r.raised
            /\ calls' = r.calls
            /\ mcp_response' = r.mcp_response
            /\ wrote' = <<>>
            /\ UNCHANGED <<registry, _server_config, history, program, env, server,
                           loop, nlines, input, stdout, stderr>>

Next ==
    \/ RegisterTool
    \/ RegisterResource
    \/ RegisterPrompt
    \/ HandleRequest
    \/ InvokeLambdaHandler
    \/ Serve
    \/ StdioServerStep
    \/ LocalServerStart
    \/ LocalServerStep
    \/ CreateLambdaHandler
    \/ LambdaHandle

Spec == Init /\ [][Next]_vars

----------------------------------------------------------------------------
(* Properties of the dispatchers *)

\* A field of the request the last operation dispatched, Absent when it has none
ReqField(k) == IF IsDict(request) THEN Get(request, k, Absent) ELSE Absent

\* A parameter of that request, Absent when it has none
ReqParam(k) ==
    IF IsDict(ReqField("params")) THEN Get(ReqField("params"), k, Absent) ELSE Absent

\* resp is an envelope that holds an error and no result
IsErrorResponse(resp) ==
    IsDict(resp) /\ "error" \in DOMAIN resp /\ "result" \notin DOMAIN resp

\* The lookups by key: the method, the parameter that names the key, the partition
Lookups ==
    {[method |-> PyStr("tools/call"), key |-> "name", partition |-> _tools],
     [method |-> PyStr("resources/read"), key |-> "uri", partition |-> _resources],
     [method |-> PyStr("prompts/get"), key |-> "name", partition |-> _prompts]}

\* C1: for every request whose method is not one of the seven built-in methods,
\* simplified.handle_request returns an error response, never a result, whose
\* error.code is -32601 and whose error.message contains the requested method name.
C1_UnknownMethodIsMethodNotFound ==
    (op = "handle_request" /\ ReqField("method") \notin Methods \cup {Absent}) =>
        /\ IsErrorResponse(response)
        /\ response.error.code = PyInt(-32601)
        /\ Contains(response.error.message, ReqField("method"))

\* C2: a tools/call, resources/read or prompts/get request naming a key that is not
\* registered in its category returns an error response with error.code -32601 and
\* a message that names the missing key, and no handler is invoked.
C2_UnregisteredKeyIsNotFound ==
    \A l \in Lookups :
        (/\ op = "handle_request"
         /\ ReqField("method") = l.method
         /\ ReqParam(l.key) # Absent
         /\ ReqParam(l.key) \notin DictKeys(l.partition)) =>
            /\ IsErrorResponse(response)
            /\ response.error.code = PyInt(-32601)
            /\ Contains(response.error.message, ReqParam(l.key))
            /\ calls = <<>>

\* C3: a request that has no id field (a notification) produces no Response:
\* handle_request yields None for it, and the stdio loop writes no line to stdout.
C3_NotificationHasNoResponse ==
    /\ (op = "handle_request" /\ IsDict(request) /\ "id" \notin DOMAIN request) =>
            response = None
    /\ (op = "stdio" /\ IsDict(request) /\ "id" \notin DOMAIN request) =>
            wrote = <<>>

\* C4: for every request that carries an id (string or integer), the envelope
\* returned by handle_request has jsonrpc "2.0" and an id equal to the request's id,
\* whether the outcome is a result or an error and whatever the method.
C4_EnvelopeMirrorsId ==
    (op = "handle_request" /\ ReqField("id") # Absent) =>
        /\ IsDict(response)
        /\ DOMAIN response \in {{"jsonrpc", "id", "result"}, {"jsonrpc", "id", "error"}}
        /\ response.jsonrpc = PyStr("2.0")
        /\ response.id = ReqField("id")

\* C4 happens: requests with a string id and with an integer id were answered, one
\* of them with an error
C4_Witness ==
    /\ op = "handle_request"
    /\ ReqField("id") = PyStr("r")
    /\ IsErrorResponse(response)
    /\ ReqField("method") = PyStr("tools/call")

\* A response carries an error when the member is present and not null; it carries
\* a result when the member is present and either not null or the only one present
\* (JSON-RPC allows a null result).
CarriesError(resp) == "error" \in DOMAIN resp /\ resp.error # None
CarriesResult(resp) ==
    "result" \in DOMAIN resp /\ (resp.result # None \/ "error" \notin DOMAIN resp)
ExactlyOneOfResultOrError(resp) == CarriesResult(resp) # CarriesError(resp)

\* C5: every Response produced by any adapter (the envelope returned by
\* simplified.handle_request, the envelope built by the local_server loop, and the
\* MCPResponse emitted by LambdaHandler.handle) carries exactly one of result or
\* error, never both and never neither, for every request and every handler return
\* value, including a handler that returns null.
C5_ExactlyOneOfResultOrError ==
    /\ (op \in {"handle_request", "stdio", "local_stdio"} /\ IsDict(response)) =>
            ExactlyOneOfResultOrError(response)
    /\ (op = "handle" /\ IsDict(mcp_response)) =>
            ExactlyOneOfResultOrError(mcp_response)

ListMethods == {PyStr("tools/list"), PyStr("resources/list"), PyStr("prompts/list")}

\* What a list method returns in the current state
ListOutput(m) ==
    IF program = "simplified"
    THEN handle_request(MkRequest(m, Absent, PyInt(7))).returned.result
    ELSE IF server = None THEN None
    ELSE CASE m = PyStr("tools/list") -> list_tools(server)
           [] m = PyStr("resources/list") -> list_resources(server)
           [] m = PyStr("prompts/list") -> list_prompts(server)

\* C8: absent new registrations the list methods are read-only: a dispatched list
\* request returns the listing of the current registry, no dispatched request
\* (call, read, get, unknown method, failing request) changes what a list method
\* returns, and none changes the contents of a registry partition.
C8_ListsAreReadOnly ==
    [][op' \in {"handle_request", "stdio", "local_stdio", "handle"} =>
          /\ registry' = registry
          /\ server' = server
          /\ \A m \in ListMethods : ListOutput(m)' = ListOutput(m)
          /\ (op' = "handle_request" /\ ReqField("method")' \in ListMethods) =>
                response'.result = ListOutput(ReqField("method"))']_vars

\* C8 happens: tools/list is answered from a registry of two tools
C8_Witness ==
    /\ op = "handle_request"
    /\ ReqField("method") = PyStr("tools/list")
    /\ Len(_tools) = 2
    /\ Len(response.result.tools.items) = 2

----------------------------------------------------------------------------
(* The registry specification: an application under development applies the   *)
(* decorators in any order, to any key, and the calls are recorded in regs.    *)

\* What a tool decorator is given besides the name
ToolDecorations ==
    {[description |-> PyStr("first"), parameters |-> None, func |-> F_echo],
     [description |-> PyStr("second"), parameters |-> ExplicitSchema, func |-> F_echo],
     [description |-> PyStr("second"), parameters |-> EmptyDict, func |-> F_echo],
     [description |-> PyStr("first"), parameters |-> None, func |-> F_noop],
     [description |-> PyStr("first"), parameters |-> None, func |-> F_max],
     [description |-> PyStr("second"), parameters |-> ExplicitSchema, func |-> F_max]}

ResourceDecorations ==
    {[description |-> PyStr("first"), func |-> F_get_data],
     [description |-> PyStr("second"), func |-> F_bad_data]}

PromptDecorations == {[description |-> PyStr("first"), func |-> F_about]}

\* The members a class of the class-based API may have, in the order of their names
MemberPool ==
    <<Tool(PyStr("t1"), PyStr("first"), None, Member("a_echo", Method(F_echo))),
      Tool(PyStr("t2"), PyStr("first"), None, Member("b_noop", Method(F_noop))),
      Tool(PyStr("t1"), PyStr("second"), ExplicitSchema, Member("c_echo", Method(F_echo))),
      Resource(PyStr("res://2"), PyStr("first"), Member("d_data", Method(F_get_data))),
      Resource(PyStr("res://1"), PyStr("first"), Member("e_data", Method(F_get_data))),
      Resource(PyStr("res://2"), PyStr("second"), Member("f_data", Method(F_bad_data))),
      Prompt(PyStr("p1"), PyStr("first"), Member("g_about", Method(F_about))),
      Member("helper", Method(F_noop))>>

\* The members at the positions I of the pool, in the order of their names
Pick(I) ==
    [j \in 1..Cardinality(I) |->
        MemberPool[CHOOSE i \in I : Cardinality({k \in I : k < i}) = j - 1]]

Classes == {Pick(I) : I \in {J \in SUBSET DOMAIN MemberPool : Cardinality(J) <= MaxMembers}}

InitRegistry ==
    /\ Blank
    /\ program \in {"simplified", "class"}
    /\ regs = <<>>
    /\ pending = None

\* A decorator of the simplified API is applied; the call is recorded when it
\* returns
Decorating ==
    /\ program = "simplified"
    /\ Len(regs) < MaxRegs
    /\ op' = "register"
    /\ UNCHANGED <<_server_config, request, response, calls, pending, program, env,
                   server, mcp_response, stdio>>

DecorateTool ==
    \E n \in ToolNames, d \in ToolDecorations :
        /\ Decorating
        /\ tool(n, d.description, d.parameters, d.func)
        /\ regs' = IF raised' = None
                   THEN Append(regs, [category |-> "tool", key |-> n,
                                      description |-> d.description,
                                      parameters |-> d.parameters, func |-> d.func])
                   ELSE regs

DecorateResource ==
    \E u \in ResourceUris, d \in ResourceDecorations :
        /\ Decorating
        /\ resource(u, d.description, d.func)
        /\ regs' = Append(regs, [category |-> "resource", key |-> u,
                                 description |-> d.description, func |-> d.func])

DecoratePrompt ==
    \E n \in PromptNames, d \in PromptDecorations :
        /\ Decorating
        /\ prompt(n, d.description, d.func)
        /\ regs' = Append(regs, [category |-> "prompt", key |-> n,
                                 description |-> d.description, func |-> d.func])

\* A subclass of MCPServer is instantiated: regs records its members as
\* inspect.getmembers reports them
Instantiate ==
    \E members \in Classes :
        /\ program = "class"
        /\ server = None
        /\ server' = MCPServer(ServerConfig, members)
        /\ regs' = members
        /\ op' = "register"
        /\ UNCHANGED <<registry, _server_config, request, response, raised, calls, pending,
                       program, env, mcp_response, stdio>>

NextRegistry ==
    \/ DecorateTool
    \/ DecorateResource
    \/ DecoratePrompt
    \/ Instantiate

SpecRegistry == InitRegistry /\ [][NextRegistry]_vars

----------------------------------------------------------------------------
(* The inference specification: @tool(name) is applied, without a schema, to one *)
(* function of every signature up to MaxParams parameters.                      *)

ParamNameChoices == {"self", "cls", "a", "b"}
AnnotationChoices ==
    {ParamEmpty, Type("int"), Type("float"), Type("bool"), Type("str"), Type("list")}
DefaultChoices == {ParamEmpty, PyInt(5)}

\* The parameter names Python code gives: distinct, a receiver only in first place
NameLists ==
    {names \in UNION {[1..len -> ParamNameChoices] : len \in 0..MaxParams} :
        /\ \A i, j \in DOMAIN names : names[i] = names[j] => i = j
        /\ \A i \in DOMAIN names : names[i] \in {"self", "cls"} => i = 1}

\* The parameter lists Python accepts over these names: no parameter without a
\* default after one with a default
Signatures ==
    UNION {{sig \in {[i \in DOMAIN names |-> Param(names[i], ad[i][1], ad[i][2])] :
                        ad \in [DOMAIN names -> AnnotationChoices \X DefaultChoices]} :
                \A i, j \in DOMAIN sig :
                    (i < j /\ sig[i].default # ParamEmpty) => sig[j].default # ParamEmpty} :
           names \in NameLists}

\* Handlers written in a module with or without postponed evaluation of annotations
HandlerFunctions ==
    {Func("f", sig, "none") : sig \in Signatures}
        \cup {Postponed(Func("f", sig, "none")) : sig \in Signatures}

InitInfer ==
    /\ Blank
    /\ program = "simplified"
    /\ regs = <<>>
    /\ pending \in HandlerFunctions

\* @tool(n) is applied to the pending function
ApplyTool ==
    \E n \in ToolNames :
        /\ pending # None
        /\ op' = "register"
        /\ tool(n, PyStr(""), None, pending)
        /\ regs' = Append(regs, [category |-> "tool", key |-> n, description |-> PyStr(""),
                                 parameters |-> None, func |-> pending])
        /\ pending' = None
        /\ UNCHANGED <<_server_config, request, response, calls, program, env, server,
                       mcp_response, stdio>>

NextInfer == ApplyTool

SpecInfer == InitInfer /\ [][NextInfer]_vars

----------------------------------------------------------------------------
(* Properties of the registries *)

Categories == {"tool", "resource", "prompt"}

\* The partition of the registry that holds the definitions of category c
Partition(c) ==
    IF program = "simplified"
    THEN CASE c = "tool" -> _tools [] c = "resource" -> _resources [] c = "prompt" -> _prompts
    ELSE IF server = None THEN <<>>
    ELSE CASE c = "tool" -> server.tools
           [] c = "resource" -> server.resources
           [] c = "prompt" -> server.prompts

\* The member of a definition that holds its key
KeyField(c) == IF c = "resource" THEN "uri" ELSE "name"

\* The attribute by which a decorator of the class-based API marks a method
Mark(c) == CASE c = "tool" -> "_mcp_tool"
             [] c = "resource" -> "_mcp_resource"
             [] c = "prompt" -> "_mcp_prompt"

\* The schema a tool decorator was given, or the inferred one when it was given none
GivenSchema(r) ==
    IF r.parameters = None THEN InferParameters(r.func).value ELSE r.parameters

\* The definition a recorded decorator call of the simplified API was given
Given(r) ==
    IF r.category = "tool"
    THEN [name |-> r.key, description |-> r.description, handler |-> r.func,
          parameters |-> GivenSchema(r)]
    ELSE (KeyField(r.category) :> r.key)
            @@ [description |-> r.description, handler |-> r.func]

\* The registrations of category c made so far, in order: the key and the definition
Registrations(c) ==
    IF program = "simplified"
    THEN LET mine == SelectSeq(regs, LAMBDA r : r.category = c)
         IN  [i \in DOMAIN mine |-> [key |-> mine[i].key, definition |-> Given(mine[i])]]
    ELSE LET mine == SelectSeq(regs, LAMBDA m : Mark(c) \in DOMAIN m.marks)
         IN  [i \in DOMAIN mine |->
                 [key |-> mine[i].marks[Mark(c)][KeyField(c)],
                  definition |-> mine[i].marks[Mark(c)]]]

RegisteredKeys(c) == {Registrations(c)[i].key : i \in DOMAIN Registrations(c)}

\* The first and the last registration of key k in category c
FirstRegistration(c, k) ==
    CHOOSE i \in DOMAIN Registrations(c) :
        /\ Registrations(c)[i].key = k
        /\ \A j \in 1..(i - 1) : Registrations(c)[j].key # k
LastRegistration(c, k) ==
    CHOOSE i \in DOMAIN Registrations(c) :
        /\ Registrations(c)[i].key = k
        /\ \A j \in (i + 1)..Len(Registrations(c)) : Registrations(c)[j].key # k

\* The entries the list method of category c returns now
Listing(c) ==
    IF program = "simplified"
    THEN CASE c = "tool" ->
                handle_request(MkRequest(PyStr("tools/list"), Absent, PyInt(7)))
                    .returned.result.tools.items
           [] c = "resource" ->
                handle_request(MkRequest(PyStr("resources/list"), Absent, PyInt(7)))
                    .returned.result.resources.items
           [] c = "prompt" ->
                handle_request(MkRequest(PyStr("prompts/list"), Absent, PyInt(7)))
                    .returned.result.prompts.items
    ELSE IF server = None THEN <<>>
    ELSE CASE c = "tool" -> list_tools(server).items
           [] c = "resource" -> list_resources(server).items
           [] c = "prompt" -> list_prompts(server).items

\* The positions of key k in the listing of category c
ListedAt(c, k) == {j \in DOMAIN Listing(c) : Listing(c)[j][KeyField(c)] = k}

\* C6: after any sequence of tool registrations, for every registered tool key k the
\* tools/list output contains exactly one entry with name k, whose parameters value
\* is the schema registered with k (the explicit schema unchanged when one was
\* supplied, otherwise the inferred one), and no entry for an unregistered key.
C6_ToolsListShowsRegisteredSchemas ==
    program = "simplified" =>
        /\ \A k \in RegisteredKeys("tool") :
              /\ Cardinality(ListedAt("tool", k)) = 1
              /\ \A j \in ListedAt("tool", k) :
                    Listing("tool")[j].parameters =
                        Registrations("tool")[LastRegistration("tool", k)].definition.parameters
        /\ \A j \in DOMAIN Listing("tool") :
              Listing("tool")[j].name \in RegisteredKeys("tool")

\* C6 happens: a tool registered with an inferred schema was registered again with
\* an explicit one, and another tool was registered in between
C6_Witness ==
    /\ program = "simplified"
    /\ Len(regs) = 3
    /\ \A i \in 1..3 : regs[i].category = "tool"
    /\ regs[1].key = regs[3].key
    /\ regs[2].key # regs[1].key
    /\ regs[1].parameters = None
    /\ regs[3].parameters = ExplicitSchema

\* C7: after any sequence of registrations each category holds at most one definition
\* per key, the definition stored under a key (description, schema, handler) is the
\* one given by the most recent registration for that key, and registration never
\* fails, including for a key that is already registered.
C7_LastRegistrationWins ==
    /\ \A c \in Categories :
          /\ \A i, j \in DOMAIN Partition(c) :
                Partition(c)[i].key = Partition(c)[j].key => i = j
          /\ DictKeys(Partition(c)) = RegisteredKeys(c)
          /\ \A k \in RegisteredKeys(c) :
                DictGet(Partition(c), k) =
                    Registrations(c)[LastRegistration(c, k)].definition
    /\ op = "register" => raised = None

\* The part of C7 about what the registry holds: one definition per key, that of the
\* most recent registration that returned
OneDefinitionPerKeyLastWins ==
    \A c \in Categories :
        /\ \A i, j \in DOMAIN Partition(c) :
              Partition(c)[i].key = Partition(c)[j].key => i = j
        /\ DictKeys(Partition(c)) = RegisteredKeys(c)
        /\ \A k \in RegisteredKeys(c) :
              DictGet(Partition(c), k) =
                  Registrations(c)[LastRegistration(c, k)].definition

\* A key is registered again, with another handler
ReRegistered ==
    /\ program = "simplified"
    /\ Len(regs) = 3
    /\ regs[1].category = "resource"
    /\ regs[3].category = "resource"
    /\ regs[1].key = regs[3].key
    /\ regs[1].func # regs[3].func

\* C9: each list method returns its entries in insertion order: if key a was
\* registered in a category before key b was first registered there, a's entry
\* precedes b's entry in that category's listing, after any sequence of
\* registrations (including re-registration of an existing key).
C9_ListingInInsertionOrder ==
    \A c \in Categories :
        \A a, b \in RegisteredKeys(c) :
            FirstRegistration(c, a) < FirstRegistration(c, b) =>
                \E i \in ListedAt(c, a) : \E j \in ListedAt(c, b) : i < j

\* C9 happens: a key was registered, then another key, then the first key again
C9_Witness ==
    /\ program = "simplified"
    /\ Len(regs) = 3
    /\ \A i \in 1..3 : regs[i].category = "tool"
    /\ regs[1].key = regs[3].key
    /\ regs[2].key # regs[1].key
    /\ Len(Listing("tool")) = 2

----------------------------------------------------------------------------
(* Properties of the inference *)

\* The reference inference, from the parameters as declared
RefType(annotation) ==
    CASE annotation = Type("int") -> PyStr("integer")
      [] annotation = Type("float") -> PyStr("number")
      [] annotation = Type("bool") -> PyStr("boolean")
      [] OTHER -> PyStr("string")

RefDeclared(func) == {i \in DOMAIN func.sig : func.sig[i].name \notin {"self", "cls"}}

RefProperties(func) ==
    [nm \in {func.sig[i].name : i \in RefDeclared(func)} |->
        [type |-> RefType(func.sig[CHOOSE i \in RefDeclared(func) :
                                      func.sig[i].name = nm].annotation)]]

RefRequired(func) ==
    {PyStr(func.sig[i].name) : i \in {j \in RefDeclared(func) : func.sig[j].default = ParamEmpty}}

MatchesReference(schema, func) ==
    IF RefDeclared(func) = {}
    THEN schema = EmptyDict
    ELSE /\ DOMAIN schema = {"type", "properties", "required"}
         /\ schema.type = PyStr("object")
         /\ schema.properties = RefProperties(func)
         /\ schema.required.py = "list"
         /\ {schema.required.items[j] : j \in DOMAIN schema.required.items} = RefRequired(func)
         /\ Len(schema.required.items) = Cardinality(RefRequired(func))

\* C10: when simplified.tool is applied without an explicit schema, the stored schema
\* equals the reference inference: properties[p] = {type: T(p)} for each declared
\* parameter p other than self/cls, where T maps an int annotation to "integer",
\* float to "number", bool to "boolean" and anything else to "string"; p is in
\* required if and only if p has no default value; the shape is
\* {type: "object", properties, required}; and a handler with no such parameters
\* gets the empty object.
C10_InferredSchemaIsReference ==
    \A i \in DOMAIN regs :
        (regs[i].category = "tool" /\ regs[i].parameters = None
            /\ \A j \in (i + 1)..Len(regs) :
                   ~(regs[j].category = "tool" /\ regs[j].key = regs[i].key))
        => MatchesReference(DictGet(_tools, regs[i].key).parameters, regs[i].func)

\* The inference follows the reference where the annotations reach it evaluated
InferredSchemaIsReferenceForDef ==
    \A i \in DOMAIN regs :
        (regs[i].category = "tool" /\ regs[i].parameters = None /\ regs[i].func.kind = "def"
            /\ \A j \in (i + 1)..Len(regs) :
                   ~(regs[j].category = "tool" /\ regs[j].key = regs[i].key))
        => MatchesReference(DictGet(_tools, regs[i].key).parameters, regs[i].func)

\* A schema was inferred for a method declared as (self, a: float)
InferredFromAnnotations ==
    /\ op = "register"
    /\ Len(regs) = 1
    /\ regs[1].func.kind = "def"
    /\ regs[1].func.sig = <<Param("self", ParamEmpty, ParamEmpty),
                            Param("a", Type("float"), ParamEmpty)>>
    /\ Len(_tools) = 1

----------------------------------------------------------------------------
(* tools/call and prompts/get of simplified.handle_request *)

\* The last operation was handle_request on a tools/call naming a registered tool
IsToolCall ==
    /\ op = "handle_request"
    /\ ReqField("method") = PyStr("tools/call")
    /\ ReqParam("name") # Absent
    /\ ReqParam("name") \in DictKeys(_tools)

\* The handler that request names, and the arguments object it carries
CalledTool == DictGet(_tools, ReqParam("name")).handler
CallArguments ==
    IF ReqParam("arguments") = Absent THEN EmptyDict ELSE ReqParam("arguments")

\* arguments is an object with every required parameter of func and no other name
Binds(func, arguments) ==
    /\ IsDict(arguments)
    /\ DOMAIN arguments \subseteq ParamNames(func.sig)
    /\ Required(func.sig) \subseteq DOMAIN arguments

\* The success result of tools/call for a handler that returned value
ToolContent(value) ==
    [content |-> PyList(<<[type |-> PyStr("text"), text |-> Fmt(JsonText(value))]>>)]

ToolCallFailed ==
    /\ IsToolCall
    /\ IsDict(CallArguments)
    /\ \/ ~Binds(CalledTool, CallArguments)
       \/ ~Body(CalledTool, CallArguments).ok

\* C12: a tools/call on a registered tool whose handler raises, or whose arguments
\* object lacks a required parameter or carries one the handler does not accept,
\* yields an error response and never a result; when the handler raises, the code
\* is -32603 and the message contains the raised error's message; the dispatcher
\* can still answer requests afterwards.
C12_ToolFailureIsErrorResponse ==
    ToolCallFailed
    => /\ raised = None
       /\ IsErrorResponse(response)
       /\ Binds(CalledTool, CallArguments)
            => /\ calls = <<CalledTool>>
               /\ response.error.code = PyInt(-32603)
               /\ Contains(response.error.message,
                           Body(CalledTool, CallArguments).message)
       /\ ENABLED HandleRequest

\* The three failures: the handler of t2 raised "Test error"; echo was called
\* without its required text; a tool without parameters was called with text
C12_Witness ==
    /\ ToolCallFailed
    /\ CalledTool = F_error_tool
    /\ Binds(CalledTool, CallArguments)
    /\ response.error.message = PyStr("Test error")

C12_WitnessMissingArgument ==
    /\ ToolCallFailed
    /\ CalledTool = F_echo
    /\ CallArguments = EmptyDict
    /\ IsErrorResponse(response)

C12_WitnessUnexpectedArgument ==
    /\ ToolCallFailed
    /\ CalledTool = F_noop
    /\ CallArguments = [text |-> PyStr("hi")]
    /\ IsErrorResponse(response)

\* The last operation, o, answered a prompts/get naming a prompt of the partition
IsPromptGet(o, prompts) ==
    /\ op = o
    /\ ReqField("method") = PyStr("prompts/get")
    /\ ReqParam("name") # Absent
    /\ ReqParam("name") \in DictKeys(prompts)

\* params.context, the empty object when the request has none
GivenContext ==
    IF ReqParam("context") = Absent THEN EmptyDict ELSE ReqParam("context")

\* The response is a success whose result is {description: s}, s being what
\* handler returns for the context as its single argument, and handler ran alone
DescribesPrompt(handler) ==
    Body(handler, <<GivenContext>>).ok
    => /\ calls = <<handler>>
       /\ CarriesResult(response)
       /\ ~CarriesError(response)
       /\ response.result = [description |-> Body(handler, <<GivenContext>>).value]

C13_WitnessNoContext ==
    /\ IsPromptGet("handle_request", _prompts)
    /\ ReqParam("context") = Absent
    /\ calls = <<F_about>>
    /\ response.result = [description |-> Fmt(<<"Tell me about ", "{}">>)]

\* The loop of local_server answered the prompt with the context it was given
C13_WitnessLocalServer ==
    /\ op = "local_stdio"
    /\ server # None
    /\ IsPromptGet("local_stdio", server.prompts)
    /\ calls = <<Method(F_about)>>
    /\ response.result
         = [description |-> Fmt(<<"Tell me about ", "{", "'", "topic", "': ",
                                  "'", "Python", "'", "}">>)]

----------------------------------------------------------------------------
(* Failures at the boundary of the dispatcher *)

\* resp is a JSON-RPC envelope
IsEnvelope(resp) ==
    /\ IsDict(resp)
    /\ "jsonrpc" \in DOMAIN resp
    /\ ExactlyOneOfResultOrError(resp)

\* The decoded value is one of the malformed requests: it is not an object, or it
\* is a tools/call whose params or whose arguments are null or not an object
IsMalformed(value) ==
    \/ ~IsDict(value)
    \/ /\ Get(value, "method", Absent) = PyStr("tools/call")
       /\ \/ ~IsDict(Get(value, "params", EmptyDict))
          \/ ~IsDict(Get(Get(value, "params", EmptyDict), "arguments", EmptyDict))

\* C14: no exception propagates out of the dispatcher: for every decoded value
\* handed to handle_request (a request without method, params or arguments that
\* are null or not an object, a value that is not an object at all) handle_request
\* returns an envelope to its caller, an error envelope when the value is
\* malformed, instead of raising.
C14_NoExceptionLeavesDispatcher ==
    op = "handle_request"
    => /\ raised = None
       /\ IsEnvelope(response)
       /\ IsMalformed(request) => IsErrorResponse(response)

\* What the code does guarantee: a decoded value that is an object is always
\* answered with an envelope, an error envelope when it is malformed.
DispatcherAnswersEveryObject ==
    (op = "handle_request" /\ IsDict(request))
    => /\ raised = None
       /\ IsEnvelope(response)
       /\ IsMalformed(request) => IsErrorResponse(response)

\* handle_request raised AttributeError on a decoded value that is not an object
DispatcherRaised ==
    /\ op = "handle_request"
    /\ ~IsDict(request)
    /\ raised # None
    /\ raised.type = "AttributeError"
    /\ response = None

\* lambda_handler let the exception of handle_request through to the gateway
LambdaHandlerRaised ==
    /\ op = "lambda_handler"
    /\ raised # None
    /\ raised.type = "AttributeError"

----------------------------------------------------------------------------
(* The stdio loops: simplified._stdio_server and local_server.handle_stdio *)

StdioOps == {"stdio", "local_stdio"}

\* This step is an iteration of a stdio loop, which read the line input'
ReadsLine == op' \in StdioOps /\ nlines' = nlines + 1

\* The loop can read another line
LoopCanRead == loop = "running" /\ (ENABLED StdioServerStep \/ ENABLED LocalServerStep)

\* This step wrote nothing to stdout and left the loop running
SkipsLine ==
    /\ stdout' = stdout
    /\ wrote' = <<>>
    /\ loop' = "running"

\* This step wrote one line to stderr, a diagnostic "Error: ...", and kept the rest
LogsDiagnostic ==
    /\ Len(stderr') = Len(stderr) + 1
    /\ SubSeq(stderr', 1, Len(stderr)) = stderr
    /\ Contains(stderr'[Len(stderr')], PyStr("Error: "))

\* C15: in the stdio loop, a line that is not valid JSON causes no write to the
\* protocol stream and does not stop the loop: a diagnostic is logged to the
\* error stream, and the loop goes on reading (later lines are read and answered).
C15_InvalidJsonIsLoggedAndSkipped ==
    [][(ReadsLine /\ input' = InvalidLine) => (SkipsLine /\ LogsDiagnostic)]_vars

\* What both loops do guarantee: the line is skipped and the loop keeps running
InvalidJsonIsSkipped ==
    [][(ReadsLine /\ input' = InvalidLine) => SkipsLine]_vars

\* and _stdio_server, not handle_stdio, logs the diagnostic
StdioServerLogsInvalidJson ==
    [][(ReadsLine /\ op' = "stdio" /\ input' = InvalidLine) => LogsDiagnostic]_vars

\* After a line that is no JSON the loop can read the next line
InvalidJsonLeavesLoopReading ==
    (op \in StdioOps /\ input = InvalidLine /\ nlines < MaxLines) => LoopCanRead

\* handle_stdio read a line that is no JSON and no stream shows it
LocalServerSkippedSilently ==
    /\ op = "local_stdio"
    /\ input = InvalidLine
    /\ nlines = 1
    /\ stderr = <<>>
    /\ stdout = <<>>
    /\ loop = "running"

\* C16: the stdio loop terminates when, and only when, input is exhausted: at end
\* of stream the loop exits without handling a request or writing a response,
\* nothing happens after it has exited, and no failure while decoding,
\* dispatching or writing the response for a line ends it before end of stream.
C16_LoopEndsAtEndOfInputOnly ==
    [][/\ (ReadsLine /\ input' = EOF)
            => /\ loop' = "exited"
               /\ stdout' = stdout
               /\ stderr' = stderr
               /\ calls' = <<>>
               /\ response' = None
       /\ (ReadsLine /\ input' # EOF) => loop' = "running"
       /\ loop = "exited" => (loop' = "exited" /\ UNCHANGED <<stdout, calls, nlines>>)
      ]_vars

\* Once the loop has exited no step of the program is possible
ExitedLoopIsFinal == loop = "exited" => ~ENABLED Next

\* A loop that read a line it could not decode, then one whose dispatch failed,
\* exited at end of stream and not before
C16_Witness ==
    /\ loop = "exited"
    /\ input = EOF
    /\ nlines = 3
    /\ Len(stderr) >= 2

\* The line just read decoded to a request: an object with a method and an id
WellFormedWithId(value) ==
    /\ IsDict(value)
    /\ "method" \in DOMAIN value
    /\ "id" \in DOMAIN value

\* C17: the stdio loop of _stdio_server handles requests strictly one at a time:
\* an iteration invokes at most one handler and writes (and flushes) its response before the
\* next line is read; each well-formed request line carrying an id yields exactly
\* one response line, the JSON of the envelope with that id, appended to stdout,
\* so that the responses are on stdout in the order of the requests.
C17_OneResponsePerRequestInOrder ==
    [][(ReadsLine /\ op' = "stdio")
        => /\ Len(calls') <= 1
           /\ Len(wrote') <= 1
           /\ stdout' = stdout \o wrote'
           /\ WellFormedWithId(request')
                => /\ Len(wrote') = 1
                   /\ wrote'[1] = LineOf(response')
                   /\ response'.id = request'.id
                   /\ ExactlyOneOfResultOrError(response')
      ]_vars

\* Two requests were read, "r" then 7, and stdout holds their responses in that order
C17_Witness ==
    /\ op = "stdio"
    /\ nlines = 2
    /\ Len(stdout) = 2
    /\ WellFormedWithId(request)
    /\ request.id = PyInt(7)
    /\ stdout[2] = LineOf(response)
    /\ Contains(stdout[1], Fmt(<<"\"", "id", "\": ", "\"", "r", "\"">>))
    /\ Contains(stdout[2], Fmt(<<"\"", "id", "\": ", "7">>))

\* line is one JSON-RPC envelope, an object on a single line, followed by a newline
IsEnvelopeLine(text) ==
    /\ Len(text.parts) >= 3
    /\ text.parts[1] = "{"
    /\ text.parts[Len(text.parts) - 1] = "}"
    /\ text.parts[Len(text.parts)] = "\n"
    /\ \A i \in 1..(Len(text.parts) - 1) : text.parts[i] # "\n"
    /\ Contains(text, Fmt(<<"\"", "jsonrpc", "\": ", "\"", "2.0", "\"">>))

\* Every line on stdout is one envelope, and what the last operation wrote there
\* is nothing or the envelope of its response
StdoutHoldsOnlyEnvelopes ==
    /\ \A i \in DOMAIN stdout : IsEnvelopeLine(stdout[i])
    /\ wrote \in {<<>>, <<LineOf(response)>>}

\* C18: everything the stdio server writes to the protocol stream (stdout) is a
\* sequence of lines each holding exactly one JSON-encoded response envelope and
\* a newline; the startup banner, request logs and error diagnostics are written
\* only to the error stream and never appear on stdout.
C18_StdoutHoldsOnlyEnvelopes ==
    op \in StdioOps \cup {"serve", "local_server"} => StdoutHoldsOnlyEnvelopes

\* What the code does guarantee: the stdout of simplified.serve holds only
\* envelopes, and so does the stdout of local_server.py where the logger of
\* core/server.py is not structlog's
SimplifiedStdoutHoldsOnlyEnvelopes ==
    (program = "simplified" /\ op \in {"serve", "stdio"}) => StdoutHoldsOnlyEnvelopes

LocalStdoutHoldsOnlyEnvelopesWithoutStructlog ==
    (op \in {"local_server", "local_stdio"} /\ ~LogsToStdout(env))
    => StdoutHoldsOnlyEnvelopes

\* serve wrote its banner and a diagnostic to stderr, and one response to stdout
SimplifiedStreamsApart ==
    /\ op = "stdio"
    /\ Len(stderr) = 3
    /\ Len(stdout) = 1
    /\ IsEnvelopeLine(stdout[1])

\* local_server.py with structlog installed: the log of a tool call is on stdout
LocalServerLoggedToStdout ==
    /\ op = "local_stdio"
    /\ calls # <<>>
    /\ Len(wrote) = 2
    /\ Contains(wrote[1], PyStr("Tool executed"))
    /\ wrote[2] = LineOf(response)

----------------------------------------------------------------------------
(* The HTTP adapters: LambdaHandler.handle and simplified.lambda_handler *)

HttpOps == {"handle", "lambda_handler"}

\* The event the adapter was called with is a CORS preflight
IsPreflight == IsDict(request) /\ Get(request, "httpMethod", None) = PyStr("OPTIONS")

\* The adapter answered directly: status 200, the cross-origin headers, an empty
\* body, and neither the dispatcher nor a handler ran
AnsweredDirectly ==
    /\ raised = None
    /\ IsDict(response)
    /\ response.statusCode = PyInt(200)
    /\ response.headers = CorsHeaders
    /\ response.body = PyStr("")
    /\ calls = <<>>
    /\ mcp_response = None

\* C19: an event whose httpMethod is OPTIONS is answered directly with status
\* 200, the permissive cross-origin headers and an empty body, without decoding a
\* body and without invoking the dispatcher or a handler, in every HTTP adapter
\* (LambdaHandler.handle and simplified.lambda_handler).
C19_PreflightAnsweredDirectly ==
    (op \in HttpOps /\ IsPreflight) => AnsweredDirectly

\* What the code does guarantee: LambdaHandler.handle answers the preflight directly
HandleAnswersPreflightDirectly ==
    (op = "handle" /\ IsPreflight) => AnsweredDirectly

\* simplified.lambda_handler dispatched the preflight event as a request: the body
\* of its response is the error envelope of handle_request
PreflightDispatched ==
    /\ op = "lambda_handler"
    /\ IsPreflight
    /\ raised = None
    /\ Contains(response.body, PyStr("Unknown method: "))

\* simplified.lambda_handler raised on the preflight of a proxy event (body null)
PreflightRaised ==
    /\ op = "lambda_handler"
    /\ IsPreflight
    /\ raised # None
    /\ raised.type = "AttributeError"

\* LambdaHandler.handle answered a preflight
HandleAnsweredPreflight ==
    /\ op = "handle"
    /\ IsPreflight
    /\ AnsweredDirectly

\* The adapter returned the HTTP envelope: status 200 and the permissive origin
\* header around the encoded body
ReturnedHttpEnvelope ==
    /\ raised = None
    /\ IsDict(response)
    /\ response.statusCode = PyInt(200)
    /\ "Access-Control-Allow-Origin" \in DOMAIN response.headers
    /\ response.headers["Access-Control-Allow-Origin"] = PyStr("*")
    /\ IsStr(response.body)

\* C20: every non-OPTIONS event handled by an HTTP adapter (LambdaHandler.handle,
\* simplified.lambda_handler) returns an envelope with statusCode 200 and
\* Access-Control-Allow-Origin "*", whether the encoded body holds a result or an
\* error: JSON-RPC errors are carried in the body, never in the HTTP status.
C20_HttpEnvelopeAlways200 ==
    (op \in HttpOps /\ ~IsPreflight) => ReturnedHttpEnvelope

\* What the code does guarantee: whenever an adapter returns, it returns the
\* envelope with status 200, for results and for errors;
HttpEnvelopeWhenReturned ==
    (op \in HttpOps /\ ~IsPreflight /\ raised = None) => ReturnedHttpEnvelope

\* LambdaHandler.handle always returns where structlog is installed;
HandleReturnsWithStructlog ==
    (op = "handle" /\ env.logger = "structlog") => raised = None

\* and lambda_handler returns for every event that holds a JSON object
LambdaHandlerReturnsForObjects ==
    (/\ op = "lambda_handler"
     /\ "body" \in DOMAIN request
     /\ IF IsStr(request.body)
        THEN JsonLoads(request.body).ok /\ IsDict(JsonLoads(request.body).value)
        ELSE IsDict(request.body))
    => ReturnedHttpEnvelope

\* simplified.lambda_handler raised on a body that is no JSON
LambdaHandlerRaisedOnInvalidJson ==
    /\ op = "lambda_handler"
    /\ ~IsPreflight
    /\ raised # None
    /\ raised.type = "JSONDecodeError"
    /\ response = None

\* LambdaHandler.handle raised from its except clause: logging.Logger.error
\* rejects the keyword arguments
HandleRaisedWhileLogging ==
    /\ op = "handle"
    /\ ~IsPreflight
    /\ raised = LoggerKwargsError

\* An error of the dispatcher carried in the body of a 200 response
ErrorCarriedInBody ==
    /\ op = "lambda_handler"
    /\ ReturnedHttpEnvelope
    /\ Contains(response.body, Fmt(<<"\"", "error", "\": ">>))

----------------------------------------------------------------------------
(* The HTTP status of LambdaHandler.handle *)

\* The body of the response holds an "error" member
BodyHoldsError == Contains(response.body, Fmt(<<"\"", "error", "\": ">>))

\* handle returned status n around a body that holds an error
StatusWithError(n) ==
    /\ raised = None
    /\ IsDict(response)
    /\ response.statusCode = PyInt(n)
    /\ BodyHoldsError

\* The event has no body, or a body that is no JSON
BodyInvalidOrMissing ==
    \/ "body" \notin DOMAIN request
    \/ IsStr(request.body) /\ ~JsonLoads(request.body).ok

\* The event was decoded to a request whose dispatch raised
DispatchRaised ==
    Bind(from_lambda_event(env, request), LAMBDA parsed :
        parsed.ok /\ ~_route_request(server, parsed.value).out.ok)

\* C21: LambdaHandler.handle returns statusCode 400 with a body containing an error
\* when the event's body is not valid JSON or the event has no body, and statusCode
\* 500 with a body containing an error when dispatching the request raises an
\* unexpected exception.
C21_BadRequestIs400AndFailureIs500 ==
    (op = "handle" /\ ~IsPreflight) =>
        IF BodyInvalidOrMissing THEN StatusWithError(400)
        ELSE DispatchRaised => StatusWithError(500)

\* What the code does: no status other than 200 ever leaves handle
HandleStatusIs200 ==
    (op = "handle" /\ raised = None) => response.statusCode = PyInt(200)

\* handle answered a body that is no JSON with status 200 and an error in the body
InvalidJsonAnswered200 ==
    /\ op = "handle"
    /\ "body" \in DOMAIN request
    /\ request.body = Fmt(<<"invalid json">>)
    /\ StatusWithError(200)

\* handle answered a request whose handler raised with status 200
HandlerFailureAnswered200 ==
    /\ op = "handle"
    /\ ~BodyInvalidOrMissing
    /\ DispatchRaised
    /\ calls # <<>>
    /\ StatusWithError(200)

\* handle dispatched an event without body as the request with method ""
MissingBodyDispatched ==
    /\ op = "handle"
    /\ request = Post
    /\ StatusWithError(200)
    /\ Contains(response.body, PyStr("Unknown method: "))

----------------------------------------------------------------------------
(* The protocol specification: the ProtocolAdapter builds responses, encodes   *)
(* them for the gateway and decodes the gateway's events.                       *)

\* pydantic installed or not; the adapter does not log
ProtocolEnvs == {e \in Envs : e.logger = "structlog"}

\* The values handed to the constructors: ids, results (JSON values, nested, and
\* objects json cannot encode), error codes and messages
ResponseIds == {PyInt(1), PyInt(7), PyStr("r"), None}
ResponseResults ==
    {None, PyBool(TRUE), PyInt(0), PyStr("ok"), PyStr(""), EmptyDict, PyList(<<>>),
     [tools |-> PyList(<<>>)],
     [content |-> PyList(<<[type |-> PyStr("text"), text |-> PyStr("hi")]>>)],
     PyList(<<PyInt(1), PyStr("a"), None>>),
     [error |-> PyStr("no error"), id |-> PyInt(2)],
     PyObject, [data |-> PyObject]}
ResponseCodes == {PyInt(-32601), PyInt(-32603), PyInt(0)}
ResponseMessages == {PyStr("Method not found"), Fmt(<<"Unknown tool: ", "zz">>), PyStr("")}
StatusCodes == {200, 500}

\* The requests a client puts in the body of an event, or hands over as the event
BodyRequests ==
    {MkRequest(PyStr("tools/list"), [test |-> PyStr("value")], PyInt(1)),
     MkRequest(PyStr("initialize"), Absent, PyInt(2)),
     MkRequest(PyStr("tools/call"), [name |-> PyStr("t1")], PyStr("r")),
     MkRequest(PyStr("bogus"), EmptyDict, Absent),
     MkRequest(Absent, Absent, Absent)}

\* What the gateway adds around the body: nothing, or members named as a request's
OuterEvents ==
    {Post,
     [httpMethod |-> PyStr("POST"), id |-> PyInt(9), method |-> PyStr("prompts/list"),
      params |-> [outer |-> PyBool(TRUE)]]}

ProtocolEvents ==
    {outer @@ [body |-> Fmt(JsonText(b))] : outer \in OuterEvents, b \in BodyRequests}
    \cup OuterEvents
    \cup BodyRequests
    \cup {Post @@ b : b \in BodyRequests}
    \cup {Post @@ [body |-> Fmt(<<"invalid json">>)],
          Post @@ [body |-> Fmt(JsonText(PyList(<<>>)))],
          Post @@ [body |-> None]}

InitProtocol ==
    /\ Blank
    /\ program \in {"simplified", "class"}
    /\ regs = <<>>
    /\ pending = None

\* An operation of the adapter ran: what it was given, built, returned and raised
Observe(name, e, given, built, returned, exception) ==
    /\ op' = name
    /\ env' = e
    /\ request' = given
    /\ mcp_response' = built
    /\ response' = returned
    /\ raised' = exception
    /\ UNCHANGED <<registry, _server_config, history, program, server, calls, stdio>>

\* adapter.create_success_response(request_id, result)
CreateSuccessResponse ==
    /\ program = "class"
    /\ \E e \in ProtocolEnvs, id \in ResponseIds, result \in ResponseResults :
        \E built \in {create_success_response(e, id, result)} :
            Observe("create_success_response", e, [id |-> id, result |-> result],
                    IF built.ok THEN built.value ELSE None, None,
                    IF built.ok THEN None ELSE built)

\* adapter.create_error_response(request_id, code, message)
CreateErrorResponse ==
    /\ program = "class"
    /\ \E e \in ProtocolEnvs, id \in ResponseIds, code \in ResponseCodes,
          message \in ResponseMessages :
        \E built \in {create_error_response(e, id, code, message)} :
            Observe("create_error_response", e,
                    [id |-> id, code |-> code, message |-> message],
                    IF built.ok THEN built.value ELSE None, None,
                    IF built.ok THEN None ELSE built)

\* adapter.to_lambda_response(response, status_code) on the response just built
ToLambdaResponse ==
    /\ op \in {"create_success_response", "create_error_response"}
    /\ mcp_response # None
    /\ \E status \in StatusCodes :
        \E out \in {to_lambda_response(mcp_response, status)} :
            Observe("to_lambda_response", env, request, mcp_response,
                    IF out.ok THEN out.value ELSE None,
                    IF out.ok THEN None ELSE out)

\* adapter.from_lambda_event(event)
FromLambdaEvent ==
    /\ program = "class"
    /\ \E e \in ProtocolEnvs, event \in ProtocolEvents :
        \E r \in {from_lambda_event(e, event)} :
            Observe("from_lambda_event", e, event, None,
                    IF r.ok THEN r.value ELSE None,
                    IF r.ok THEN None ELSE r)

\* simplified.lambda_handler(event, context), no handler registered
DecodeLambdaEvent ==
    /\ program = "simplified"
    /\ \E event \in ProtocolEvents :
        \E r \in {lambda_handler(event)} :
            Observe("lambda_handler", None, event, None, r.returned, r.raised)

NextProtocol ==
    \/ CreateSuccessResponse
    \/ CreateErrorResponse
    \/ ToLambdaResponse
    \/ FromLambdaEvent
    \/ DecodeLambdaEvent

SpecProtocol == InitProtocol /\ [][NextProtocol]_vars

----------------------------------------------------------------------------
(* Encoding a response and decoding it again *)

\* The object a client decodes from the body of the response returned
DecodedBody == JsonLoads(response.body)

\* The decoded object holds what the constructor was given: the id, and the result
\* or the code and message of the error
SameAsConstructed(body) ==
    /\ IsDict(body)
    /\ "id" \in DOMAIN body
    /\ body.id = request.id
    /\ IF "result" \in DOMAIN request
       THEN "result" \in DOMAIN body /\ body.result = request.result
       ELSE /\ "error" \in DOMAIN body
            /\ IsDict(body.error)
            /\ body.error.code = request.code
            /\ body.error.message = request.message

\* C22: round trip: for every Response built by create_success_response or
\* create_error_response (any id, any result, any error code and message),
\* decoding the body produced by to_lambda_response yields an object with the same
\* id and the same result or error as constructed.
C22_ResponseBodyRoundTrip ==
    (op = "to_lambda_response" /\ raised = None) =>
        /\ DecodedBody.ok
        /\ SameAsConstructed(DecodedBody.value)

\* C22 happens: a success response with a nested result was encoded by the pydantic
\* model and decoded again
C22_Witness ==
    /\ op = "to_lambda_response"
    /\ raised = None
    /\ env.pydantic
    /\ "result" \in DOMAIN request
    /\ request.result = [content |-> PyList(<<[type |-> PyStr("text"), text |-> PyStr("hi")]>>)]
    /\ DecodedBody.value.result.content.items[1].text = PyStr("hi")

\* and so was an error response built without pydantic
C22_WitnessError ==
    /\ op = "to_lambda_response"
    /\ raised = None
    /\ ~env.pydantic
    /\ "code" \in DOMAIN request
    /\ request.id = PyStr("r")
    /\ DecodedBody.value.error.code = PyInt(-32601)

\* No body is produced for a result json cannot encode: to_lambda_response raises
NoBodyForUnencodableResult ==
    /\ op = "to_lambda_response"
    /\ raised # None
    /\ raised.type = "TypeError"
    /\ response = None

----------------------------------------------------------------------------
(* Decoding an event *)

\* The Request returned holds the id, method and params of the object source;
\* a member the object lacks takes the default of the code (1, "", {})
RequestTakenFrom(source) ==
    /\ raised = None
    /\ IsDict(response)
    /\ response.id = Get(source, "id", PyInt(1))
    /\ response.method = Get(source, "method", PyStr(""))
    /\ response.params = Get(source, "params", EmptyDict)

\* lambda_handler answered the request source: its body decodes to the envelope
\* handle_request returns for source (null for a request without id)
AnsweredRequest(source) ==
    /\ raised = None
    /\ DecodedBody.ok
    /\ DecodedBody.value = handle_request(source).returned

\* The event holds the JSON text of b as its body
BodyIs(b) == "body" \in DOMAIN request /\ request.body = Fmt(JsonText(b))

C23_WitnessNoBody ==
    /\ op = "from_lambda_event"
    /\ "body" \notin DOMAIN request
    /\ response # None
    /\ response.id = PyInt(9)
    /\ response.method = PyStr("prompts/list")

\* and lambda_handler answers the request of the body, not the event around it
C23_WitnessLambdaHandler ==
    /\ op = "lambda_handler"
    /\ BodyIs(MkRequest(PyStr("tools/list"), [test |-> PyStr("value")], PyInt(1)))
    /\ Get(request, "id", None) = PyInt(9)
    /\ DecodedBody.value.id = PyInt(1)
    /\ "tools" \in DOMAIN DecodedBody.value.result

----------------------------------------------------------------------------
(* The error codes *)

\* The codes an error response may carry
Taxonomy == {PyInt(-32601), PyInt(-32602), PyInt(-32603)}

\* The error member of resp holds a code of the taxonomy and a string message
HoldsTaxonomyError(resp) ==
    /\ IsDict(resp.error)
    /\ {"code", "message"} \subseteq DOMAIN resp.error
    /\ resp.error.code \in Taxonomy
    /\ IsStr(resp.error.message)

\* The error response the last operation produced, None when it produced none
ErrorResponseProduced ==
    IF op \in {"handle_request", "stdio", "local_stdio"}
    THEN IF IsDict(response) /\ "error" \in DOMAIN response THEN response ELSE None
    ELSE IF op = "handle"
    THEN IF IsDict(mcp_response) /\ CarriesError(mcp_response) THEN mcp_response ELSE None
    ELSE None

\* C24: every error response produced by any dispatcher or adapter
\* (simplified.handle_request, the local_server loop, LambdaHandler.handle) carries
\* an integer code drawn from the fixed taxonomy {-32601, -32602, -32603} together
\* with a string message, for every request and every handler failure.
C24_ErrorCodesOfTheTaxonomy ==
    ErrorResponseProduced # None => HoldsTaxonomyError(ErrorResponseProduced)

\* C24 happens: handle_request answered the failure of a handler
C24_Witness ==
    /\ op = "handle_request"
    /\ calls # <<>>
    /\ ErrorResponseProduced # None
    /\ response.error.code = PyInt(-32603)
    /\ Contains(response.error.message, PyStr("Test error"))

\* the local server answered an unknown method
C24_WitnessLocalServer ==
    /\ op = "local_stdio"
    /\ ErrorResponseProduced # None
    /\ response.error.code = PyInt(-32601)

\* and LambdaHandler.handle answered a failure
C24_WitnessHandle ==
    /\ op = "handle"
    /\ ErrorResponseProduced # None
    /\ mcp_response.error.code = PyInt(-32603)
    /\ calls # <<>>

----------------------------------------------------------------------------
(* Which handler a request invokes *)

\* The operations that dispatch a decoded request
DispatchOps == {"handle_request", "stdio", "local_stdio"}

\* The partitions of the registry the dispatcher of the running program reads
Partitions ==
    IF program = "simplified"
    THEN [tools |-> _tools, resources |-> _resources, prompts |-> _prompts]
    ELSE [tools |-> server.tools, resources |-> server.resources, prompts |-> server.prompts]

\* The key of partition part the request names, Absent when it names none there
NamedKey(part) ==
    CASE part = "tools" /\ ReqField("method") = PyStr("tools/call") -> ReqParam("name")
      [] part = "resources" /\ ReqField("method") = PyStr("resources/read") -> ReqParam("uri")
      [] part = "prompts" /\ ReqField("method") = PyStr("prompts/get") -> ReqParam("name")
      [] OTHER -> Absent

\* The handlers the request's method and key dictate: the handler registered under
\* the key it names, none for any other request
DictatedHandlers ==
    {DictGet(Partitions[part], NamedKey(part)).handler :
        part \in {p \in {"tools", "resources", "prompts"} :
                     NamedKey(p) \in DictKeys(Partitions[p])}}

\* How the message of a TypeError continues after the name of the function called,
\* when Python rejects the call while binding the arguments
RejectionTexts ==
    {"() argument after ** must be a mapping, not ",
     "() got an unexpected keyword argument '",
     "() missing required argument: '",
     "() missing required argument",
     "() takes "}

\* The call of handler h was made and rejected before its body ran: the response
\* is the error that TypeError was turned into
CallRejected(h) ==
    /\ IsErrorResponse(response)
    /\ \E t \in RejectionTexts : Contains(response.error.message, Fmt(<<h.fn, t>>))

\* C25: each dispatched request invokes handlers exactly as its method dictates: a
\* tools/call, resources/read or prompts/get naming a registered key invokes that
\* key's handler exactly once and no other handler; initialize, the list methods,
\* unknown methods and requests naming an unregistered key invoke no handler; and
\* this also holds for a request without an id, which is still dispatched so that
\* its handler's side effects occur.
C25_HandlersInvokedAsMethodDictates ==
    (op \in DispatchOps /\ IsDict(request)) =>
        IF DictatedHandlers = {} THEN calls = <<>>
        ELSE \E h \in DictatedHandlers :
                /\ DictatedHandlers = {h}
                /\ \/ calls = <<h>>
                   \/ calls = <<>> /\ CallRejected(h)

\* C25 happens: a tools/call without id reached the stdio loop and its handler ran
C25_Witness ==
    /\ op = "stdio"
    /\ IsDict(request)
    /\ "id" \notin DOMAIN request
    /\ ReqField("method") = PyStr("tools/call")
    /\ Len(calls) = 1
    /\ calls[1] \in DictatedHandlers

\* the class-based server invoked the prompt handler a prompts/get named
C25_WitnessLocalServer ==
    /\ op = "local_stdio"
    /\ ReqField("method") = PyStr("prompts/get")
    /\ Len(calls) = 1
    /\ DictatedHandlers = {calls[1]}

\* a tools/call named a registered tool with arguments its handler does not take
C25_WitnessRejected ==
    /\ op = "handle_request"
    /\ DictatedHandlers # {}
    /\ calls = <<>>
    /\ \E h \in DictatedHandlers : CallRejected(h)

\* and a request named a key while tools of other keys were registered
C25_WitnessUnregistered ==
    /\ op = "handle_request"
    /\ ReqField("method") = PyStr("tools/call")
    /\ ReqParam("name") # Absent
    /\ _tools # <<>>
    /\ DictatedHandlers = {}
    /\ calls = <<>>

----------------------------------------------------------------------------
(* The hanging specification: an application registers tools, some of which    *)
(* never return, and serves them over stdio.                                    *)

HangingTools == {<<PyStr("t1"), F_wait>>, <<PyStr("t2"), F_hang>>}

RegisterHangingTool ==
    \E t \in HangingTools :
        /\ Registering
        /\ tool(t[1], PyStr(""), None, t[2])
        /\ UNCHANGED history

InitHang ==
    /\ Blank
    /\ program = "simplified"
    /\ regs = <<>>
    /\ pending = None

NextHang ==
    \/ RegisterTool
    \/ RegisterHangingTool
    \/ Serve
    \/ StdioServerStep

SpecHang == InitHang /\ [][NextHang]_vars

\* The request the loop read names a tool whose handler never returns
HandlerHangs ==
    /\ op = "stdio"
    /\ IsDict(request)
    /\ \E h \in DictatedHandlers : h.body = "hang"

\* C26: if a handler invocation never returns, the stdio server reads no further
\* request line and writes no further response: there is no timeout, request queue
\* or cancellation path, so every request sent after the hung one stays unanswered
\* for as long as the handler hangs.
C26_HungHandlerBlocksTheLoop ==
    /\ HandlerHangs => (loop = "hung" /\ wrote = <<>> /\ response = None)
    /\ loop = "hung" => (HandlerHangs /\ ~ENABLED NextHang)

\* C26 happens: the first request hangs while the client may still send lines
C26_Witness ==
    /\ loop = "hung"
    /\ nlines = 1
    /\ nlines < MaxLines
    /\ "id" \in DOMAIN request
    /\ calls = <<F_wait>>
    /\ stdout = <<>>

\* or a request was answered and the next one hangs
C26_WitnessSecondRequest ==
    /\ loop = "hung"
    /\ nlines = 2
    /\ Len(stdout) = 1
    /\ calls = <<F_hang>>

----------------------------------------------------------------------------
(* The equivalence specification: an application registers its handlers with   *)
(* the simplified API, builds a class-based server of the same handlers, and   *)
(* dispatches requests.                                                         *)

\* The class whose decorated methods are the handlers of the simplified registry,
\* under the same keys and descriptions
MirrorClass ==
    [i \in DOMAIN _tools |->
        Tool(_tools[i].value.name, _tools[i].value.description, None,
             Member(_tools[i].value.handler.fn, Method(_tools[i].value.handler)))]
    \o [i \in DOMAIN _resources |->
        Resource(_resources[i].value.uri, _resources[i].value.description,
                 Member(_resources[i].value.handler.fn, Method(_resources[i].value.handler)))]
    \o [i \in DOMAIN _prompts |->
        Prompt(_prompts[i].value.name, _prompts[i].value.description,
               Member(_prompts[i].value.handler.fn, Method(_prompts[i].value.handler)))]

\* server = ServerClass(config), the class holding the same handlers
CreateEquivalentServer ==
    \E e \in {x \in LocalEnvs : x.logger = "structlog"} :
        /\ program = "simplified"
        /\ loop = "idle"
        /\ server = None
        /\ env' = e
        /\ server' = MCPServer(_server_config, MirrorClass)
        /\ op' = "create_server"
        /\ NoObservation
        /\ UNCHANGED <<registry, _server_config, history, program, loop, nlines,
                       input, stdout, stderr>>

InitEquiv ==
    /\ Blank
    /\ program = "simplified"
    /\ regs = <<>>
    /\ pending = None

NextEquiv ==
    \/ RegisterTool
    \/ RegisterResource
    \/ RegisterPrompt
    \/ CreateEquivalentServer
    \/ HandleRequest

SpecEquiv == InitEquiv /\ [][NextEquiv]_vars

\* The JSON-RPC outcome of a response: its result, or the code and message of its
\* error; None when there is no response
Outcome(resp) ==
    IF ~IsDict(resp) THEN None
    ELSE IF CarriesError(resp)
    THEN [code |-> resp.error.code, message |-> resp.error.message]
    ELSE [result |-> Get(resp, "result", None)]

\* The class-based server holds the handlers of the simplified registry
SameHandlers == server # None /\ server = MCPServer(_server_config, MirrorClass)

\* What the local_server loop and LambdaHandler.handle answer to the request that
\* simplified.handle_request has just answered
LocalServerResponse == LocalIteration(env, server, LineOf(request)).response
LambdaHandlerResponse == handle(env, server, Post @@ [body |-> Fmt(JsonText(request))]).mcp_response

\* C27: the three dispatchers are equivalent: for the same registered handlers and
\* the same request (any method, any params), simplified.handle_request, the
\* local_server stdio loop and LambdaHandler.handle produce the same JSON-RPC
\* outcome, that is the same result value on success, or the same error code and
\* message on failure.
C27_DispatchersEquivalent ==
    (op = "handle_request" /\ IsDict(request) /\ raised = None /\ SameHandlers) =>
        /\ Outcome(LocalServerResponse) = Outcome(response)
        /\ Outcome(LambdaHandlerResponse) = Outcome(response)

\* The dispatchers disagree on an unknown method: the local server answers with
\* code -32601, the other two with -32603
UnknownMethodCodesDiffer ==
    /\ op = "handle_request"
    /\ SameHandlers
    /\ ReqField("method") = PyStr("bogus")
    /\ Outcome(response).code = PyInt(-32603)
    /\ Outcome(LocalServerResponse).code = PyInt(-32601)
    /\ Outcome(LambdaHandlerResponse).code = PyInt(-32603)

\* and on a successful tools/call: LambdaHandler.handle answers with the value the
\* handler returned, the other two with its JSON text inside a content list
ToolResultsDiffer ==
    /\ op = "handle_request"
    /\ SameHandlers
    /\ calls = <<F_echo>>
    /\ Outcome(response) = Outcome(LocalServerResponse)
    /\ "content" \in DOMAIN Outcome(response).result
    /\ Outcome(LambdaHandlerResponse).result = [echo |-> PyStr("hi")]

\* The three agree where a handler raises
HandlerFailuresAgree ==
    (/\ op = "handle_request"
     /\ IsDict(request)
     /\ SameHandlers
     /\ calls # <<>>
     /\ calls[1].body = "raise")
    => /\ Outcome(response) = [code |-> PyInt(-32603), message |-> PyStr("Test error")]
       /\ Outcome(LocalServerResponse) = Outcome(response)
       /\ Outcome(LambdaHandlerResponse) = Outcome(response)

----------------------------------------------------------------------------
(* The schema of a class-based tool *)

\* The entry list_tools returns for the tool named n
ListedTool(n) ==
    CHOOSE entry \in {list_tools(server).items[i] : i \in DOMAIN list_tools(server).items} :
        entry.name = n

\* C28: a tool registered through the class-based Tool decorator without an
\* explicit schema is stored, and listed by MCPServer.list_tools, with a schema
\* derived from its handler's declared parameter list (excluding the receiver),
\* exactly as a tool registered through simplified.tool without a schema.
C28_ClassToolSchemaIsInferred ==
    SameHandlers =>
        \A n \in DictKeys(_tools) :
            /\ n \in DictKeys(server.tools)
            /\ DictGet(server.tools, n).parameters = DictGet(_tools, n).parameters
            /\ ListedTool(n).parameters = DictGet(_tools, n).parameters

\* What the code does: Tool stores the schema it is given, and {} when given none
ClassToolSchemaIsEmpty ==
    SameHandlers =>
        \A n \in DictKeys(_tools) :
            /\ n \in DictKeys(server.tools)
            /\ DictGet(server.tools, n).parameters = EmptyDict
            /\ ListedTool(n).parameters = EmptyDict

\* The same function, def echo(text: str), holds an inferred schema in the
\* simplified registry and {} in the class-based server
SchemasDiffer ==
    /\ SameHandlers
    /\ PyStr("t1") \in DictKeys(_tools)
    /\ DictGet(_tools, PyStr("t1")).handler = F_echo
    /\ DictGet(server.tools, PyStr("t1")).handler = Method(F_echo)
    /\ DictGet(_tools, PyStr("t1")).parameters.required = PyList(<<PyStr("text")>>)
    /\ ListedTool(PyStr("t1")).parameters = EmptyDict

----------------------------------------------------------------------------
(* The registry of a class-based server *)

\* The members of the instantiated class that no decorator has marked
Undecorated == {j \in DOMAIN regs : DOMAIN regs[j].marks = {}}

C29_WitnessEveryCategory ==
    /\ program = "class"
    /\ server # None
    /\ Len(server.tools) = 1
    /\ Len(server.resources) = 1
    /\ Len(server.prompts) = 1

----------------------------------------------------------------------------
(* The id of the responses of LambdaHandler.handle *)

\* handle returned a response to the event whose body is the JSON text of r
AnsweredBody(r) ==
    /\ op = "handle"
    /\ BodyIs(r)
    /\ raised = None
    /\ IsDict(mcp_response)

\* C30: LambdaHandler.handle mirrors the request's correlation id on failure as
\* well as on success: when the request is carried in the event's body with id i
\* and dispatch fails (unknown method, unregistered key, or a handler exception),
\* the id in the error response body is i.
C30_ErrorMirrorsBodyId ==
    \A r \in LambdaRequests :
        (AnsweredBody(r) /\ "id" \in DOMAIN r /\ CarriesError(mcp_response)) =>
            /\ mcp_response.id = r.id
            /\ DecodedBody.ok
            /\ DecodedBody.value.id = r.id

\* What the code does: the id of the body is mirrored on success,
SuccessMirrorsBodyId ==
    \A r \in LambdaRequests :
        (AnsweredBody(r) /\ "id" \in DOMAIN r /\ ~CarriesError(mcp_response)) =>
            /\ mcp_response.id = r.id
            /\ DecodedBody.value.id = r.id

\* and every error is answered under the id member of the event, 1 when the event
\* has none
ErrorAnsweredUnderEventId ==
    (op = "handle" /\ raised = None /\ IsDict(mcp_response) /\ CarriesError(mcp_response)) =>
        mcp_response.id = Get(request, "id", PyInt(1))

\* A request of id 7 whose handler raised was answered under id 1
HandlerErrorAnsweredUnderId1 ==
    /\ \E r \in LambdaRequests : AnsweredBody(r) /\ Get(r, "id", None) = PyInt(7)
    /\ calls # <<>>
    /\ CarriesError(mcp_response)
    /\ DecodedBody.value.id = PyInt(1)

====
